---- MODULE Spec2Model ----
(***************************************************************************)
(* SiMPL: monomorphic type inference by constraint collection and          *)
(* unification (src/src/types, src/crates/simpl-types).                    *)
(*                                                                         *)
(* Types are tuples: <<"Int">>, <<"Float">>, <<"Bool">>, <<"Var", id>>,    *)
(* <<"Fn", args, ret>> with args the sequence of argument types (the Vec   *)
(* of crates/simpl-types; the binary Fn of src/src/types/ty.rs is the      *)
(* function type with one argument).                                       *)
(* A substitution is a function from a finite set of type-variable ids to  *)
(* types (the HashMap<TypeVar, Type> of Subst).                            *)
(***************************************************************************)
EXTENDS Naturals, Integers, Sequences, FiniteSets, TLC

VARIABLES
    phase,        \* "build" | "collect" | "unify" | "apply" | "done": position of the driver
    ast,          \* Option: the surface expression given to from_ast
    expr,         \* Option: the typed HIR given to collect
    cons,         \* the constraint list handed to unify
    stack,        \* call stack of unify: frames [cons, pc, subst]
    ret,          \* Option: the substitution returned by the last finished call
    status,       \* "running" | "ok" | "TypeMismatch" | "OccursCheck"
    lastCon,      \* Option: the constraint most recently matched by unify1
    lastApplied,  \* Option: the substitution most recently given to Type::apply
    typed,        \* Option: the tree returned by infer_and_apply
    result,       \* Option: the type returned by type_of
    law,          \* Option: a run of compose and apply on two given substitutions
    pass          \* Option: a run of a pass of the code generator on a given tree

vars == <<phase, ast, expr, cons, stack, ret, status, lastCon, lastApplied, typed, result, law, pass>>

----------------------------------------------------------------------------
(* Bounds of the model *)

\* type variables are 0 .. MaxVar in the enumerated constraint lists
MaxVar == 1
\* total number of type nodes in an enumerated constraint list
MaxNodes == 6
\* number of type variables from_ast draws for an enumerated expression
MaxTyVars == 6
\* the type variables from_ast draws for an enumerated input of normalize_expr
MaxAnfCost == 6
\* the type variables from_ast draws for an enumerated input of rename
MaxRenameCost == 6
\* the type variables from_ast draws for an enumerated input of convert
MaxClosureCost == 6
\* the type variables from_ast draws for an enumerated source of the code
\* generation tests
MaxCodegenCost == 4

----------------------------------------------------------------------------
(* Option values *)

None == <<>>
Some(x) == <<x>>
IsSome(o) == Len(o) = 1
Get(o) == o[1]

----------------------------------------------------------------------------
(* Type (ty.rs) *)

TInt == <<"Int">>
TFloat == <<"Float">>
TBool == <<"Bool">>
TVar(id) == <<"Var", id>>
\* Fn(Vec<Type>, Box<Type>) of crates/simpl-types; the binary Fn(Box, Box) of
\* src/src/types is the function type with one argument
TFnVec(args, res) == <<"Fn", args, res>>
TFn(arg, res) == TFnVec(<<arg>>, res)

IsVar(ty) == ty[1] = "Var"
IsFn(ty) == ty[1] = "Fn"
IsPrim(ty) == ty[1] \in {"Int", "Float", "Bool"}

RECURSIVE TypeVarsOf(_)
TypeVarsOf(ty) ==
    IF IsVar(ty) THEN {ty[2]}
    ELSE IF IsFn(ty)
         THEN UNION {TypeVarsOf(ty[2][i]) : i \in 1 .. Len(ty[2])} \cup TypeVarsOf(ty[3])
         ELSE {}

----------------------------------------------------------------------------
(* Subst (subst.rs) *)

EmptySubst == <<>>

from_pair(tvar, ty) == tvar :> ty

RECURSIVE replace(_, _, _)
replace(ty, tvar, replacement) ==
    IF IsVar(ty) THEN (IF ty[2] = tvar THEN replacement ELSE ty)
    ELSE IF IsFn(ty)
         THEN TFnVec([i \in 1 .. Len(ty[2]) |-> replace(ty[2][i], tvar, replacement)],
                     replace(ty[3], tvar, replacement))
         ELSE ty

\* Type::apply under one iteration order of the map: ord lists keys of subst,
\* and the fold replaces them one after another in that order.
RECURSIVE TypeApply(_, _, _)
TypeApply(ty, subst, ord) ==
    IF ord = <<>> THEN ty
    ELSE TypeApply(replace(ty, Head(ord), subst[Head(ord)]), subst, Tail(ord))

RECURSIVE Perms(_)
Perms(S) ==
    IF S = {} THEN {<<>>}
    ELSE UNION {{<<x>> \o p : p \in Perms(S \ {x})} : x \in S}

\* The keys whose position in the iteration order can matter for ty: the keys
\* that occur in ty, or in the range type of such a key.  Replacing any other
\* key leaves the accumulator unchanged wherever it stands in the order.
RECURSIVE ReachKeys(_, _)
ReachKeys(subst, K) ==
    LET K2 == K \cup {k \in DOMAIN subst : \E j \in K : k \in TypeVarsOf(subst[j])}
    IN IF K2 = K THEN K ELSE ReachKeys(subst, K2)

RelevantKeys(ty, subst) == ReachKeys(subst, TypeVarsOf(ty) \cap DOMAIN subst)

\* Every result Type::apply can give: one per iteration order of the HashMap.
TypeApplyResults(ty, subst) ==
    {TypeApply(ty, subst, ord) : ord \in Perms(RelevantKeys(ty, subst))}

\* Constraint::apply
ConstraintApplyResults(con, subst) ==
    {<<t1, t2>> : t1 \in TypeApplyResults(con[1], subst),
                  t2 \in TypeApplyResults(con[2], subst)}

\* Subst::apply_cons
RECURSIVE apply_cons(_, _)
apply_cons(subst, cs) ==
    IF cs = <<>> THEN {<<>>}
    ELSE {<<c>> \o rest : c \in ConstraintApplyResults(Head(cs), subst),
                          rest \in apply_cons(subst, Tail(cs))}

\* compose that forgets to apply other to the range types of self
compose_no_apply(self, other) == {other @@ self}

\* Subst::compose: other is applied to every range type of self, then the
\* entries of other are added and replace those of self on a common key.
compose(self, other) ==
    LET D == DOMAIN self
        R == UNION {TypeApplyResults(self[k], other) : k \in D}
        substituted_this == {f \in [D -> R] : \A k \in D : f[k] \in TypeApplyResults(self[k], other)}
    IN {other @@ f : f \in substituted_this}

----------------------------------------------------------------------------
(* unify (unify.rs) *)

\* occurs that looks only at the result type of a function type
RECURSIVE occurs_ret_only(_, _)
occurs_ret_only(tvar, ty) ==
    IF IsVar(ty) THEN tvar = ty[2]
    ELSE IF IsFn(ty) THEN occurs_ret_only(tvar, ty[3])
    ELSE FALSE

\* occurs that reports every function type as containing the variable
occurs_any_fn(tvar, ty) == IF IsVar(ty) THEN tvar = ty[2] ELSE IsFn(ty)

RECURSIVE occurs(_, _)
occurs(tvar, ty) ==
    IF IsVar(ty) THEN tvar = ty[2]
    ELSE IF IsFn(ty)
         THEN (\E i \in 1 .. Len(ty[2]) : occurs(tvar, ty[2][i])) \/ occurs(tvar, ty[3])
    ELSE FALSE

\* unify_var without the occurs check
unify_var_no_occurs(tvar, ty) ==
    IF IsVar(ty) /\ ty[2] = tvar THEN Some(EmptySubst) ELSE Some(from_pair(tvar, ty))

\* unify_var: None stands for the panic "Circular use"
unify_var(tvar, ty) ==
    IF IsVar(ty) /\ ty[2] = tvar THEN Some(EmptySubst)
    ELSE IF IsVar(ty) THEN Some(from_pair(tvar, ty))
    ELSE IF occurs(tvar, ty) THEN None
    ELSE Some(from_pair(tvar, ty))

Frame(cs, pc, subst) == [cons |-> cs, pc |-> pc, subst |-> subst]

Top == stack[Len(stack)]
Pop == SubSeq(stack, 1, Len(stack) - 1)
SetTop(f) == [stack EXCEPT ![Len(stack)] = f]

Running == phase = "unify" /\ status = "running" /\ stack # <<>>
AtUnify1 == Running /\ Top.pc = "unify1" /\ Top.cons # <<>>
HeadCon == Head(Top.cons)

\* args1.into_iter().zip(args2): pairs up to the shorter of the two
zip(args1, args2) ==
    [i \in 1 .. (IF Len(args1) <= Len(args2) THEN Len(args1) ELSE Len(args2)) |->
        <<args1[i], args2[i]>>]

\* a first arm that accepts any two primitives
AnyTwoPrims(con) == IsPrim(con[1]) /\ IsPrim(con[2])

\* the first arm of unify1: (Int, Int) | (Bool, Bool) | (Float, Float)
SamePrim(con) == IsPrim(con[1]) /\ con[1] = con[2]
HasVar(con) == IsVar(con[1]) \/ IsVar(con[2])
BothFn(con) == IsFn(con[1]) /\ IsFn(con[2])

\* unify: [] => Subst::new()
UnifyEmpty ==
    /\ Running /\ Top.pc = "unify1" /\ Top.cons = <<>>
    /\ stack' = Pop
    /\ ret' = Some(EmptySubst)
    /\ UNCHANGED <<phase, ast, expr, typed, result, cons, status, lastCon, lastApplied>>
    /\ UNCHANGED <<law, pass>>

\* unify1: (Int, Int) | (Bool, Bool) | (Float, Float) => Subst::new()
Unify1Prim ==
    /\ AtUnify1 /\ SamePrim(HeadCon)
    /\ stack' = SetTop(Frame(Top.cons, "tail", EmptySubst))
    /\ lastCon' = Some(HeadCon)
    /\ UNCHANGED <<phase, ast, expr, typed, result, cons, ret, status, lastApplied>>
    /\ UNCHANGED <<law, pass>>

\* unify1: (Var(tvar), ty) | (ty, Var(tvar)) => unify_var(tvar, ty)
Unify1Var ==
    /\ AtUnify1 /\ ~SamePrim(HeadCon) /\ HasVar(HeadCon)
    /\ LET tvar == IF IsVar(HeadCon[1]) THEN HeadCon[1][2] ELSE HeadCon[2][2]
           ty == IF IsVar(HeadCon[1]) THEN HeadCon[2] ELSE HeadCon[1]
           r == unify_var(tvar, ty)
       IN IF IsSome(r)
          THEN /\ stack' = SetTop(Frame(Top.cons, "tail", Get(r)))
               /\ UNCHANGED status
          ELSE /\ status' = "OccursCheck"
               /\ UNCHANGED stack
    /\ lastCon' = Some(HeadCon)
    /\ UNCHANGED <<phase, ast, expr, typed, result, cons, ret, lastApplied>>
    /\ UNCHANGED <<law, pass>>

\* unify1: (Fn(args1, ret1), Fn(args2, ret2)) => unify(zip(args1, args2) ++ [(ret1, ret2)])
Unify1Fn ==
    /\ AtUnify1 /\ ~SamePrim(HeadCon) /\ ~HasVar(HeadCon) /\ BothFn(HeadCon)
    /\ LET t1 == HeadCon[1]
           t2 == HeadCon[2]
       IN stack' = Append(SetTop(Frame(Top.cons, "wait1", EmptySubst)),
                          Frame(zip(t1[2], t2[2]) \o << <<t1[3], t2[3]>> >>, "unify1", EmptySubst))
    /\ lastCon' = Some(HeadCon)
    /\ UNCHANGED <<phase, ast, expr, typed, result, cons, ret, status, lastApplied>>
    /\ UNCHANGED <<law, pass>>

\* unify1: _ => panic!("Cannot unify ...")
Unify1Mismatch ==
    /\ AtUnify1 /\ ~SamePrim(HeadCon) /\ ~HasVar(HeadCon) /\ ~BothFn(HeadCon)
    /\ status' = "TypeMismatch"
    /\ lastCon' = Some(HeadCon)
    /\ UNCHANGED <<phase, ast, expr, typed, result, cons, stack, ret, lastApplied>>
    /\ UNCHANGED <<law, pass>>

\* the nested unify of the Fn case returns: its result is unify1's result
Unify1Return ==
    /\ Running /\ Top.pc = "wait1" /\ IsSome(ret)
    /\ stack' = SetTop(Frame(Top.cons, "tail", Get(ret)))
    /\ ret' = None
    /\ UNCHANGED <<phase, ast, expr, typed, result, cons, status, lastCon, lastApplied>>
    /\ UNCHANGED <<law, pass>>

\* unify: substituted_tail = subst.apply_cons(tail); unify(substituted_tail)
UnifyTail ==
    /\ Running /\ Top.pc = "tail"
    /\ \E substituted_tail \in apply_cons(Top.subst, Tail(Top.cons)) :
          stack' = Append(SetTop(Frame(Top.cons, "wait2", Top.subst)),
                          Frame(substituted_tail, "unify1", EmptySubst))
    /\ lastApplied' = Some(Top.subst)
    /\ UNCHANGED <<phase, ast, expr, typed, result, cons, ret, status, lastCon>>
    /\ UNCHANGED <<law, pass>>

\* unify: subst.compose(&subst_tail)
UnifyCompose ==
    /\ Running /\ Top.pc = "wait2" /\ IsSome(ret)
    /\ \E composed \in compose(Top.subst, Get(ret)) :
          ret' = Some(composed)
    /\ stack' = Pop
    /\ lastApplied' = ret
    /\ UNCHANGED <<phase, ast, expr, typed, result, cons, status, lastCon>>
    /\ UNCHANGED <<law, pass>>

\* the outermost unify has returned its substitution to its caller
UnifyDone ==
    /\ phase = "unify" /\ status = "running" /\ stack = <<>> /\ IsSome(ret)
    /\ IF IsSome(expr)
       THEN phase' = "apply" /\ UNCHANGED status
       ELSE phase' = "done" /\ status' = "ok"
    /\ UNCHANGED <<ast, expr, typed, result, cons, stack, ret, lastCon, lastApplied>>
    /\ UNCHANGED <<law, pass>>

----------------------------------------------------------------------------
(* Surface AST (syntax/ast.rs) and typed HIR (hir/mod.rs) *)

LitInt(i) == <<"Int", i>>
LitBool(b) == <<"Bool", b>>
LitFloat(x) == <<"Float", x>>

\* Lit::ty
LitTy(val) ==
    IF val[1] = "Int" THEN TInt ELSE IF val[1] = "Bool" THEN TBool ELSE TFloat

ALit(val) == [k |-> "Lit", val |-> val]
AVar(name) == [k |-> "Var", name |-> name]
ABinop(lhs, rhs, op) == [k |-> "Binop", lhs |-> lhs, rhs |-> rhs, op |-> op]
AIf(test, then, els) == [k |-> "If", test |-> test, then |-> then, els |-> els]
ALet(bindings, body) == [k |-> "Let", bindings |-> bindings, body |-> body]
ALetrec(bindings, body) == [k |-> "Letrec", bindings |-> bindings, body |-> body]
ALambda(params, body) == [k |-> "Lambda", params |-> params, body |-> body]
AApp(func, arg) == [k |-> "App", func |-> func, arg |-> arg]
ABinding(name, ann, val) == [name |-> name, ann |-> ann, val |-> val]
AParam(name, ann) == [name |-> name, ann |-> ann]

Lit(ty, val) == [k |-> "Lit", ty |-> ty, val |-> val]
Var(ty, name) == [k |-> "Var", ty |-> ty, name |-> name]
Binop(ty, lhs, rhs, op) == [k |-> "Binop", ty |-> ty, lhs |-> lhs, rhs |-> rhs, op |-> op]
If(ty, test, then, els) == [k |-> "If", ty |-> ty, test |-> test, then |-> then, els |-> els]
Let(ty, binding, body) == [k |-> "Let", ty |-> ty, binding |-> binding, body |-> body]
Letrec(ty, bindings, body) == [k |-> "Letrec", ty |-> ty, bindings |-> bindings, body |-> body]
Lambda(ty, param, body) == [k |-> "Lambda", ty |-> ty, param |-> param, body |-> body]
App(ty, func, arg) == [k |-> "App", ty |-> ty, func |-> func, arg |-> arg]
LetBinding(ty, name, ann, val) == [ty |-> ty, name |-> name, ann |-> ann, val |-> val]
Param(ty, name, ann) == [ty |-> ty, name |-> name, ann |-> ann]

\* expand_lambda: \x1, ..., xn -> b  ==>  \x1 -> (\x2, ..., xn -> b)
RECURSIVE expand_lambda(_, _)
expand_lambda(params, body) ==
    IF Len(params) = 1 THEN [param |-> params[1], body |-> body]
    ELSE LET rest == expand_lambda(Tail(params), body)
         IN [param |-> params[1], body |-> ALambda(<<rest.param>>, rest.body)]

\* expand_let: let x1 = e1, ..., xn = en in b  ==>  let x1 = e1 in (let x2 = e2, ... in b)
RECURSIVE expand_let(_, _)
expand_let(bindings, body) ==
    IF Len(bindings) = 1 THEN [binding |-> bindings[1], body |-> body]
    ELSE LET rest == expand_let(Tail(bindings), body)
         IN [binding |-> bindings[1], body |-> ALet(<<rest.binding>>, rest.body)]

\* Expr::from_ast_inner: the result is [expr, gen], gen the counter of the
\* TypeVarGen after the call; Counter::next returns the counter and adds one.
\* The fields of a struct literal are evaluated in the order they are written.
RECURSIVE from_ast_inner(_, _)
RECURSIVE from_ast_bindings(_, _)

\* a map over the bindings that hands every binding the same generator state
RECURSIVE from_ast_bindings_unthreaded(_, _)
from_ast_bindings_unthreaded(bindings, gen) ==
    IF bindings = <<>> THEN [bindings |-> <<>>, gen |-> gen]
    ELSE LET b == Head(bindings)
             val == from_ast_inner(b.val, gen + 1)
             rest == from_ast_bindings_unthreaded(Tail(bindings), gen + 1)
         IN [bindings |-> <<LetBinding(TVar(gen), b.name, b.ann, val.expr)>> \o rest.bindings,
             gen |-> rest.gen]

from_ast_inner(a, gen) ==
    IF a.k = "Lit" THEN [expr |-> Lit(TVar(gen), a.val), gen |-> gen + 1]
    ELSE IF a.k = "Var" THEN [expr |-> Var(TVar(gen), a.name), gen |-> gen + 1]
    ELSE IF a.k = "If" THEN
        LET t == from_ast_inner(a.test, gen + 1)
            th == from_ast_inner(a.then, t.gen)
            el == from_ast_inner(a.els, th.gen)
        IN [expr |-> If(TVar(gen), t.expr, th.expr, el.expr), gen |-> el.gen]
    ELSE IF a.k = "Let" THEN
        LET x == expand_let(a.bindings, a.body)
            val == from_ast_inner(x.binding.val, gen + 2)
            body == from_ast_inner(x.body, val.gen)
        IN [expr |-> Let(TVar(gen),
                         LetBinding(TVar(gen + 1), x.binding.name, x.binding.ann, val.expr),
                         body.expr),
            gen |-> body.gen]
    ELSE IF a.k = "Letrec" THEN
        LET bs == from_ast_bindings(a.bindings, gen + 1)
            body == from_ast_inner(a.body, bs.gen)
        IN [expr |-> Letrec(TVar(gen), bs.bindings, body.expr), gen |-> body.gen]
    ELSE IF a.k = "Lambda" THEN
        LET x == expand_lambda(a.params, a.body)
            body == from_ast_inner(x.body, gen + 2)
        IN [expr |-> Lambda(TVar(gen), Param(TVar(gen + 1), x.param.name, x.param.ann), body.expr),
            gen |-> body.gen]
    ELSE \* App
        LET f == from_ast_inner(a.func, gen + 1)
            x == from_ast_inner(a.arg, f.gen)
        IN [expr |-> App(TVar(gen), f.expr, x.expr), gen |-> x.gen]

\* the map over the bindings of a Letrec
from_ast_bindings(bindings, gen) ==
    IF bindings = <<>> THEN [bindings |-> <<>>, gen |-> gen]
    ELSE LET b == Head(bindings)
             val == from_ast_inner(b.val, gen + 1)
             rest == from_ast_bindings(Tail(bindings), val.gen)
         IN [bindings |-> <<LetBinding(TVar(gen), b.name, b.ann, val.expr)>> \o rest.bindings,
             gen |-> rest.gen]

\* Expr::from_ast: a new generator, starting at 0
from_ast(a) == from_ast_inner(a, 0).expr

\* from_ast_inner reaches every node: a Binop anywhere ends in todo!()
RECURSIVE HasBinop(_)
RECURSIVE AnyBindingHasBinop(_)
HasBinop(a) ==
    IF a.k = "Binop" THEN TRUE
    ELSE IF a.k \in {"Lit", "Var"} THEN FALSE
    ELSE IF a.k = "If" THEN HasBinop(a.test) \/ HasBinop(a.then) \/ HasBinop(a.els)
    ELSE IF a.k \in {"Let", "Letrec"} THEN AnyBindingHasBinop(a.bindings) \/ HasBinop(a.body)
    ELSE IF a.k = "Lambda" THEN HasBinop(a.body)
    ELSE HasBinop(a.func) \/ HasBinop(a.arg)

AnyBindingHasBinop(bindings) ==
    bindings # <<>> /\ (HasBinop(Head(bindings).val) \/ AnyBindingHasBinop(Tail(bindings)))

----------------------------------------------------------------------------
(* Type environment (ty.rs) and constraint collection (constraint.rs) *)

\* TypeEnv::default
DefaultEnv ==
    [name \in {"add", "sub", "mul", "is_zero", "not"} |->
        IF name \in {"add", "sub", "mul"} THEN TFn(TInt, TFn(TInt, TInt))
        ELSE IF name = "is_zero" THEN TFn(TInt, TBool)
        ELSE TFn(TBool, TBool)]

\* TypeEnv::insert
EnvInsert(tenv, name, ty) == (name :> ty) @@ tenv

\* the operand and result types of a Binop
BinopTys(e) ==
    IF e.op \in {"IntAdd", "IntSub", "IntMul", "IntDiv"} THEN <<TInt, TInt, TInt>>
    ELSE IF e.op \in {"IntLt", "IntLeq", "IntGt", "IntGeq"} THEN <<TInt, TInt, TBool>>
    ELSE IF e.op \in {"FloatAdd", "FloatSub", "FloatMul", "FloatDiv"} THEN <<TFloat, TFloat, TFloat>>
    ELSE IF e.op \in {"FloatLt", "FloatLeq", "FloatGt", "FloatGeq"} THEN <<TFloat, TFloat, TBool>>
    ELSE <<e.rhs.ty, e.lhs.ty, TBool>>

\* cons.extend(...) when neither side panicked
Extend(a, b) == IF IsSome(a) /\ IsSome(b) THEN Some(Get(a) \o Get(b)) ELSE None

\* the first loop over the bindings of a Letrec: constraints and environment
RECURSIVE LetrecCons(_)
LetrecCons(bindings) ==
    IF bindings = <<>> THEN <<>>
    ELSE << <<Head(bindings).ty, Head(bindings).val.ty>> >> \o LetrecCons(Tail(bindings))

RECURSIVE LetrecEnv(_, _)
LetrecEnv(bindings, tenv) ==
    IF bindings = <<>> THEN tenv
    ELSE LetrecEnv(Tail(bindings), EnvInsert(tenv, Head(bindings).name, Head(bindings).ty))

\* collect_inner: None stands for the panic "Unbound variable"
RECURSIVE collect_inner(_, _)
RECURSIVE collect_bindings(_, _)

\* Expr::Lit
collect_lit(e, tenv) == Some(<< <<e.ty, LitTy(e.val)>> >>)

\* a Var case that looks the name up but relates the use to nothing
collect_var_unconstrained(e, tenv) ==
    IF e.name \in DOMAIN tenv THEN Some(<<>>) ELSE None

\* Expr::Var
collect_var(e, tenv) ==
    IF e.name \in DOMAIN tenv THEN Some(<< <<e.ty, tenv[e.name]>> >>) ELSE None

\* Expr::Binop
collect_binop(e, tenv) ==
    LET tys == BinopTys(e)
    IN Extend(Extend(Some(<< <<e.lhs.ty, tys[1]>>, <<e.rhs.ty, tys[2]>>, <<e.ty, tys[3]>> >>),
                     collect_inner(e.lhs, tenv)),
              collect_inner(e.rhs, tenv))

\* Expr::If
collect_if(e, tenv) ==
    Extend(Extend(Extend(Some(<< <<e.test.ty, TBool>>, <<e.then.ty, e.ty>>, <<e.els.ty, e.ty>> >>),
                         collect_inner(e.test, tenv)),
                  collect_inner(e.then, tenv)),
           collect_inner(e.els, tenv))

\* a Let case that collects the bound value under the extended environment
collect_let_val_in_ext(e, tenv) ==
    LET ext_tenv == EnvInsert(tenv, e.binding.name, e.binding.ty)
        ann == IF IsSome(e.binding.ann) THEN << <<Get(e.binding.ann), e.binding.val.ty>> >> ELSE <<>>
    IN Extend(Extend(Some(<< <<e.ty, e.body.ty>>, <<e.binding.ty, e.binding.val.ty>> >> \o ann),
                     collect_inner(e.binding.val, ext_tenv)),
              collect_inner(e.body, ext_tenv))

\* Expr::Let
collect_let(e, tenv) ==
    LET ext_tenv == EnvInsert(tenv, e.binding.name, e.binding.ty)
        ann == IF IsSome(e.binding.ann) THEN << <<Get(e.binding.ann), e.binding.val.ty>> >> ELSE <<>>
    IN Extend(Extend(Some(<< <<e.ty, e.body.ty>>, <<e.binding.ty, e.binding.val.ty>> >> \o ann),
                     collect_inner(e.binding.val, tenv)),
              collect_inner(e.body, ext_tenv))

\* Expr::Letrec
collect_letrec(e, tenv) ==
    LET ext_tenv == LetrecEnv(e.bindings, tenv)
    IN Extend(Extend(Some(<< <<e.ty, e.body.ty>> >> \o LetrecCons(e.bindings)),
                     collect_bindings(e.bindings, ext_tenv)),
              collect_inner(e.body, ext_tenv))

\* Expr::Lambda
collect_lambda(e, tenv) ==
    LET ext_tenv == EnvInsert(tenv, e.param.name, e.param.ty)
        ann == IF IsSome(e.param.ann) THEN << <<Get(e.param.ann), e.param.ty>> >> ELSE <<>>
    IN Extend(Some(<< <<e.ty, TFn(e.param.ty, e.body.ty)>> >> \o ann),
              collect_inner(e.body, ext_tenv))

\* Expr::App
collect_app(e, tenv) ==
    Extend(Extend(Some(<< <<e.func.ty, TFn(e.arg.ty, e.ty)>> >>),
                  collect_inner(e.func, tenv)),
           collect_inner(e.arg, tenv))

collect_inner(e, tenv) ==
    IF e.k = "Lit" THEN collect_lit(e, tenv)
    ELSE IF e.k = "Var" THEN collect_var(e, tenv)
    ELSE IF e.k = "Binop" THEN collect_binop(e, tenv)
    ELSE IF e.k = "If" THEN collect_if(e, tenv)
    ELSE IF e.k = "Let" THEN collect_let(e, tenv)
    ELSE IF e.k = "Letrec" THEN collect_letrec(e, tenv)
    ELSE IF e.k = "Lambda" THEN collect_lambda(e, tenv)
    ELSE collect_app(e, tenv)

\* the second loop over the bindings of a Letrec
collect_bindings(bindings, ext_tenv) ==
    IF bindings = <<>> THEN Some(<<>>)
    ELSE Extend(collect_inner(Head(bindings).val, ext_tenv),
                collect_bindings(Tail(bindings), ext_tenv))

\* collect
collect(e) == collect_inner(e, DefaultEnv)

----------------------------------------------------------------------------
(* TypedExpr::apply (subst.rs): every tree the call can return *)

RECURSIVE ExprApply(_, _)
RECURSIVE BindingsApply(_, _)
ExprApply(e, subst) ==
    IF e.k = "Lit" THEN {Lit(ty, e.val) : ty \in TypeApplyResults(e.ty, subst)}
    ELSE IF e.k = "Var" THEN {Var(ty, e.name) : ty \in TypeApplyResults(e.ty, subst)}
    ELSE IF e.k = "If" THEN
        {If(ty, t, th, el) : ty \in TypeApplyResults(e.ty, subst), t \in ExprApply(e.test, subst),
                             th \in ExprApply(e.then, subst), el \in ExprApply(e.els, subst)}
    ELSE IF e.k = "Let" THEN
        {Let(ty, [e.binding EXCEPT !.ty = bty], body) :
            ty \in TypeApplyResults(e.ty, subst),
            bty \in TypeApplyResults(e.binding.ty, subst),
            body \in ExprApply(e.body, subst)}
    ELSE IF e.k = "Letrec" THEN
        {Letrec(ty, bs, body) : ty \in TypeApplyResults(e.ty, subst),
                                bs \in BindingsApply(e.bindings, subst),
                                body \in ExprApply(e.body, subst)}
    ELSE IF e.k = "Lambda" THEN
        {Lambda(ty, [e.param EXCEPT !.ty = pty], body) :
            ty \in TypeApplyResults(e.ty, subst),
            pty \in TypeApplyResults(e.param.ty, subst),
            body \in ExprApply(e.body, subst)}
    ELSE \* App
        {App(ty, f, x) : ty \in TypeApplyResults(e.ty, subst), f \in ExprApply(e.func, subst),
                         x \in ExprApply(e.arg, subst)}

BindingsApply(bindings, subst) ==
    IF bindings = <<>> THEN {<<>>}
    ELSE {<<[Head(bindings) EXCEPT !.ty = bty]>> \o rest :
            bty \in TypeApplyResults(Head(bindings).ty, subst),
            rest \in BindingsApply(Tail(bindings), subst)}

----------------------------------------------------------------------------
(* The drivers: from_str, type_of and infer_and_apply (hir/mod.rs, types/mod.rs) *)

\* Expr::from_str: from_ast on the parsed expression
Build ==
    /\ phase = "build" /\ status = "running"
    /\ IF HasBinop(Get(ast))
       THEN /\ status' = "NotImplemented"
            /\ UNCHANGED <<phase, expr>>
       ELSE /\ expr' = Some(from_ast(Get(ast)))
            /\ phase' = "collect"
            /\ UNCHANGED status
    /\ UNCHANGED <<ast, cons, stack, ret, lastCon, lastApplied, typed, result>>
    /\ UNCHANGED <<law, pass>>

\* constraint::collect(expr.clone()), then the call of unify::unify(&cons)
Collect ==
    /\ phase = "collect" /\ status = "running"
    /\ LET cs == collect(Get(expr))
       IN IF IsSome(cs)
          THEN /\ cons' = Get(cs)
               /\ stack' = <<Frame(Get(cs), "unify1", EmptySubst)>>
               /\ phase' = "unify"
               /\ UNCHANGED status
          ELSE /\ status' = "UnboundVariable"
               /\ UNCHANGED <<phase, cons, stack>>
    /\ UNCHANGED <<ast, expr, ret, lastCon, lastApplied, typed, result>>
    /\ UNCHANGED <<law, pass>>

\* type_of: subst.apply_ty(&expr.ty())
TypeOf ==
    /\ phase = "apply" /\ status = "running"
    /\ \E ty \in TypeApplyResults(Get(expr).ty, Get(ret)) : result' = Some(ty)
    /\ lastApplied' = ret
    /\ phase' = "done"
    /\ status' = "ok"
    /\ UNCHANGED <<ast, expr, cons, stack, ret, lastCon, typed>>
    /\ UNCHANGED <<law, pass>>

\* infer_and_apply: expr.apply(&subst)
InferAndApply ==
    /\ phase = "apply" /\ status = "running"
    /\ IsSome(ast)
    /\ \E e \in ExprApply(Get(expr), Get(ret)) : typed' = Some(e)
    /\ lastApplied' = ret
    /\ phase' = "done"
    /\ status' = "ok"
    /\ UNCHANGED <<ast, expr, cons, stack, ret, lastCon, result>>
    /\ UNCHANGED <<law, pass>>

----------------------------------------------------------------------------
(* Enumerated inputs *)

Atoms == {TInt, TBool} \cup {TVar(i) : i \in 0 .. MaxVar}

RECURSIVE TypesOfSize(_)
TypesOfSize(n) ==
    IF n = 1 THEN Atoms
    ELSE IF n < 3 THEN {}
    ELSE UNION {{TFn(a, r) : a \in TypesOfSize(k), r \in TypesOfSize(n - 1 - k)} : k \in 1 .. (n - 2)}

ConstraintsOfSize(n) ==
    UNION {{<<t, u>> : t \in TypesOfSize(k), u \in TypesOfSize(n - k)} : k \in 1 .. (n - 1)}

RECURSIVE ConsOfSize(_)
ConsOfSize(n) ==
    IF n = 0 THEN {<<>>}
    ELSE UNION {{<<c>> \o rest : c \in ConstraintsOfSize(k), rest \in ConsOfSize(n - k)} : k \in 2 .. n}

\* the constraint lists of the tests of unify.rs
UnifyTests ==
    { << <<TInt, TInt>> >>, << <<TFloat, TFloat>> >>, << <<TBool, TBool>> >>,
      << <<TVar(1), TVar(2)>> >>, << <<TFn(TBool, TBool), TFn(TBool, TBool)>> >>,
      << <<TVar(1), TInt>> >>, << <<TFn(TVar(1), TBool), TFn(TInt, TVar(2))>> >> }

\* one constraint between a function type of two arguments, as that of add in
\* the default environment of crates/simpl-types, and a type variable or a
\* function type of one or two arguments
ArityInputs ==
    { << <<TFnVec(<<a, b>>, TInt), f>> >> :
        a \in Atoms, b \in Atoms,
        f \in {TVar(0)} \cup {TFn(c, TInt) : c \in Atoms}
               \cup {TFnVec(<<c, d>>, TInt) : c \in Atoms, d \in Atoms} }

\* constraint lists given to unify directly, as the tests of unify.rs do
ConsInputs == UNION {ConsOfSize(n) : n \in 0 .. MaxNodes} \cup UnifyTests \cup ArityInputs

Names == {"x", "y"}
Leaves == {ALit(LitInt(1))} \cup {AVar(n) : n \in Names \cup {"not"}}

ParamSeqs(m) == {[i \in 1 .. m |-> AParam(f[i], None)] : f \in [1 .. m -> Names]}

\* surface expressions for which from_ast draws exactly n type variables;
\* BindSeqs(n, w): binding lists drawing n in all, w for each binder itself
RECURSIVE AstOfCost(_)
RECURSIVE BindSeqs(_, _)
AstOfCost(n) ==
    IF n < 1 THEN {}
    ELSE (IF n = 1 THEN Leaves ELSE {})
         \cup UNION {{AApp(f, a) : f \in AstOfCost(i), a \in AstOfCost(n - 1 - i)} : i \in 1 .. (n - 2)}
         \cup UNION {UNION {{AIf(t, th, el) : t \in AstOfCost(i), th \in AstOfCost(j),
                                              el \in AstOfCost(n - 1 - i - j)} :
                            j \in 1 .. (n - 2 - i)} : i \in 1 .. (n - 3)}
         \cup UNION {{ALambda(ps, b) : ps \in ParamSeqs(m), b \in AstOfCost(n - 2 * m)} :
                     m \in 1 .. ((n - 1) \div 2)}
         \cup UNION {{ALet(bs, b) : bs \in BindSeqs(i, 2), b \in AstOfCost(n - i)} : i \in 3 .. (n - 1)}
         \cup UNION {{ALetrec(bs, b) : bs \in BindSeqs(i, 1), b \in AstOfCost(n - 1 - i)} : i \in 2 .. (n - 2)}

BindSeqs(n, w) ==
    UNION {{<<ABinding(nm, None, v)>> \o rest :
                nm \in Names, v \in AstOfCost(c),
                rest \in (IF n - w - c = 0 THEN {<<>>} ELSE BindSeqs(n - w - c, w))} :
           c \in 1 .. (n - w)}

\* \x -> x x  (rejected by the occurs check)
SelfApplication == ALambda(<<AParam("x", None)>>, AApp(AVar("x"), AVar("x")))

\* let first = \x, y -> x, id = \x -> x in first (id 0) (id false)   (lib.rs, let_polymorphism)
LetPolymorphism ==
    ALet(<<ABinding("first", None, ALambda(<<AParam("x", None), AParam("y", None)>>, AVar("x"))),
           ABinding("id", None, ALambda(<<AParam("x", None)>>, AVar("x")))>>,
         AApp(AApp(AVar("first"), AApp(AVar("id"), ALit(LitInt(0)))),
              AApp(AVar("id"), ALit(LitBool(FALSE)))))

\* let x = 1, y = add x 1, z = \a -> add a y in z   (test.rs, infer_let_many)
LetMany ==
    ALet(<<ABinding("x", None, ALit(LitInt(1))),
           ABinding("y", None, AApp(AApp(AVar("add"), AVar("x")), ALit(LitInt(1)))),
           ABinding("z", None, ALambda(<<AParam("a", None)>>,
                                       AApp(AApp(AVar("add"), AVar("a")), AVar("y"))))>>,
         AVar("z"))

\* letrec countdown = \x -> if is_zero x then 0 else countdown (sub x 1) in countdown
Countdown ==
    ALetrec(<<ABinding("countdown", None,
                ALambda(<<AParam("x", None)>>,
                        AIf(AApp(AVar("is_zero"), AVar("x")),
                            ALit(LitInt(0)),
                            AApp(AVar("countdown"),
                                 AApp(AApp(AVar("sub"), AVar("x")), ALit(LitInt(1)))))))>>,
            AVar("countdown"))

\* 1 + 2   (test.rs, infer_operators)
OnePlusTwo == ABinop(ALit(LitInt(1)), ALit(LitInt(2)), "IntAdd")

TestPrograms == {SelfApplication, LetPolymorphism, LetMany, Countdown, OnePlusTwo}

\* let n1 = v1, n2 = v2 in b, the smallest n-ary lets
LetPairs ==
    {ALet(<<ABinding(n1, None, v1), ABinding(n2, None, v2)>>, b) :
        n1 \in Names, n2 \in Names, v1 \in Leaves, v2 \in Leaves, b \in Leaves}

AstInputs == UNION {AstOfCost(n) : n \in 1 .. MaxTyVars} \cup LetPairs \cup TestPrograms

\* 1 + true as typed HIR, its nodes numbered as the builder numbers them
OnePlusTrue ==
    Binop(TVar(0), Lit(TVar(1), LitInt(1)), Lit(TVar(2), LitBool(TRUE)), "IntAdd")

\* 1 == 2 as typed HIR
OneEqTwo ==
    Binop(TVar(0), Lit(TVar(1), LitInt(1)), Lit(TVar(2), LitInt(2)), "Eq")

HirInputs == {OnePlusTrue, OneEqTwo}

Init ==
    /\ \/ /\ phase = "unify"
          /\ ast = None
          /\ expr = None
          /\ cons \in ConsInputs
          /\ stack = <<Frame(cons, "unify1", EmptySubst)>>
       \/ /\ phase = "build"
          /\ ast \in {Some(a) : a \in AstInputs}
          /\ expr = None
          /\ cons = <<>>
          /\ stack = <<>>
       \/ /\ phase = "collect"
          /\ ast = None
          /\ expr \in {Some(e) : e \in HirInputs}
          /\ cons = <<>>
          /\ stack = <<>>
    /\ ret = None
    /\ status = "running"
    /\ lastCon = None
    /\ lastApplied = None
    /\ typed = None
    /\ result = None
    /\ law = None
    /\ pass = None

Next ==
    \/ Build
    \/ Collect
    \/ UnifyEmpty
    \/ Unify1Prim
    \/ Unify1Var
    \/ Unify1Fn
    \/ Unify1Mismatch
    \/ Unify1Return
    \/ UnifyTail
    \/ UnifyCompose
    \/ UnifyDone
    \/ TypeOf
    \/ InferAndApply

Spec == Init /\ [][Next]_vars

----------------------------------------------------------------------------
(* Inference of programs whose binders carry annotations *)

\* the annotation of a binder: none, or a type of the annotation grammar
AnnTypes == {TInt, TBool, TFn(TInt, TInt), TFn(TBool, TBool)}
AnnOpts == {None} \cup {Some(t) : t \in AnnTypes}

\* bound values: 1, true, \a -> a, \a: Int -> a
AnnVals ==
    {ALit(LitInt(1)), ALit(LitBool(TRUE))}
    \cup {ALambda(<<AParam("a", o)>>, AVar("a")) : o \in {None, Some(TInt)}}

\* let idInt = \a: Int -> a in idInt;  let idInt: Int -> Int = \a -> a in idInt
\* (test.rs, infer_annotations)
InferAnnotations ==
    {ALet(<<ABinding("idInt", None, ALambda(<<AParam("a", Some(TInt))>>, AVar("a")))>>, AVar("idInt")),
     ALet(<<ABinding("idInt", Some(TFn(TInt, TInt)), ALambda(<<AParam("a", None)>>, AVar("a")))>>,
          AVar("idInt"))}

AnnInputs ==
    {ALet(<<ABinding("x", o, v)>>, AVar("x")) : o \in AnnOpts, v \in AnnVals}
    \cup {ALetrec(<<ABinding("x", o, v)>>, AVar("x")) : o \in AnnOpts, v \in AnnVals}
    \cup {ALambda(<<AParam("a", o)>>, b) :
             o \in AnnOpts, b \in {AVar("a"), ALit(LitInt(1)), AApp(AVar("not"), AVar("a"))}}
    \cup {ALambda(<<AParam("a", o1), AParam("b", o2)>>, AVar("b")) : o1 \in AnnOpts, o2 \in AnnOpts}
    \cup InferAnnotations

InitAnn ==
    /\ phase = "build"
    /\ ast \in {Some(a) : a \in AnnInputs}
    /\ expr = None /\ cons = <<>> /\ stack = <<>> /\ ret = None
    /\ status = "running"
    /\ lastCon = None /\ lastApplied = None /\ typed = None /\ result = None
    /\ law = None
    /\ pass = None

SpecAnn == InitAnn /\ [][Next]_vars

----------------------------------------------------------------------------
(* Subst::compose and Type::apply called on two given substitutions *)

\* the substitutions over the keys 0 .. MaxVar whose range types are atoms
SubstInputs ==
    UNION {[K -> Atoms] : K \in SUBSET (0 .. MaxVar)}

\* subst1 and subst2 of the test composes
ComposesSubst1 == (3 :> TVar(1)) @@ (2 :> TInt) @@ (4 :> TFn(TVar(1), TVar(2)))
ComposesSubst2 == (1 :> TInt) @@ (2 :> TBool)

LawRun(s1, s2, ty) ==
    [s1 |-> s1, s2 |-> s2, ty |-> ty,
     composed |-> None, viaComposed |-> None, first |-> None, viaBoth |-> None]

InitCompose ==
    /\ phase = "compose"
    /\ ast = None /\ expr = None /\ cons = <<>> /\ stack = <<>> /\ ret = None
    /\ status = "running"
    /\ lastCon = None /\ lastApplied = None /\ typed = None /\ result = None
    /\ law \in {Some(LawRun(s1, s2, ty)) :
                    s1 \in SubstInputs, s2 \in SubstInputs,
                    ty \in TypesOfSize(1) \cup TypesOfSize(3)}
               \cup {Some(LawRun(ComposesSubst1, ComposesSubst2, TVar(v))) : v \in 1 .. 4}
    /\ pass = None

Unchanged ==
    UNCHANGED <<phase, ast, expr, cons, stack, ret, status, lastCon, lastApplied, typed, result, pass>>

\* s1.compose(&s2)
ComposeCall ==
    /\ phase = "compose" /\ Get(law).composed = None
    /\ \E c \in compose(Get(law).s1, Get(law).s2) :
          law' = Some([Get(law) EXCEPT !.composed = Some(c)])
    /\ Unchanged

\* ty.apply(&composed)
ApplyComposed ==
    /\ phase = "compose" /\ IsSome(Get(law).composed) /\ Get(law).viaComposed = None
    /\ \E r \in TypeApplyResults(Get(law).ty, Get(Get(law).composed)) :
          law' = Some([Get(law) EXCEPT !.viaComposed = Some(r)])
    /\ Unchanged

\* ty.apply(&s1)
ApplyFirst ==
    /\ phase = "compose" /\ Get(law).first = None
    /\ \E r \in TypeApplyResults(Get(law).ty, Get(law).s1) :
          law' = Some([Get(law) EXCEPT !.first = Some(r)])
    /\ Unchanged

\* ty.apply(&s1).apply(&s2)
ApplySecond ==
    /\ phase = "compose" /\ IsSome(Get(law).first) /\ Get(law).viaBoth = None
    /\ \E r \in TypeApplyResults(Get(Get(law).first), Get(law).s2) :
          law' = Some([Get(law) EXCEPT !.viaBoth = Some(r)])
    /\ Unchanged

NextCompose ==
    \/ ComposeCall
    \/ ApplyComposed
    \/ ApplyFirst
    \/ ApplySecond

SpecCompose == InitCompose /\ [][NextCompose]_vars

----------------------------------------------------------------------------
(* A-normal form (codegen/anf.rs) *)

\* Gensym::next: the prefix "$" followed by the counter
Gensym(g) == "$" \o ToString(g)

\* Expr::is_anf, is_e, is_ae; the Letrec arm of is_e is todo!() and is not
\* reached on the trees given to it here
RECURSIVE is_e(_)
RECURSIVE is_ae(_)
is_e(e) ==
    IF e.k = "If" THEN is_ae(e.test) /\ is_ae(e.then) /\ is_ae(e.els)
    ELSE IF e.k = "Let" THEN is_e(e.binding.val) /\ is_e(e.body)
    ELSE IF e.k = "App" THEN is_ae(e.func) /\ is_ae(e.arg)
    ELSE is_ae(e)

is_ae(e) ==
    IF e.k = "Lambda" THEN is_e(e.body)
    ELSE e.k \in {"Lit", "Var"}

is_anf(e) == is_e(e)

\* The continuation k of normalize is a stack of closures, the innermost
\* first; the empty stack is |x| x.  Each closure keeps what it captured.
IfK(ty, then, els) == [k |-> "IfK", ty |-> ty, then |-> then, els |-> els]
LetK(ty, binding, body) == [k |-> "LetK", ty |-> ty, binding |-> binding, body |-> body]
AppFuncK(ty, arg) == [k |-> "AppFuncK", ty |-> ty, arg |-> arg]
AppArgK(ty, func) == [k |-> "AppArgK", ty |-> ty, func |-> func]
NameK == [k |-> "NameK"]

\* normalize(expr, k) and k(n): the result is [expr, g], g the counter of
\* GENSYM after the call
RECURSIVE normalize(_, _, _)
RECURSIVE ApplyK(_, _, _)

\* normalize_expr_inner: normalize(expr, box |x| x)
normalize_expr_inner(e, g) == normalize(e, <<>>, g)

\* a normalize_name that names nothing
normalize_name_unnamed(e, K, g) == normalize(e, K, g)

\* normalize_name: normalize(expr, box |n| match n { ... })
normalize_name(e, K, g) == normalize(e, <<NameK>> \o K, g)

\* the closure of normalize_name that binds every n, literals and variables too
name_k_always(K, n, g) ==
    LET name == Gensym(g)
        b == ApplyK(K, Var(n.ty, name), g + 1)
    IN [expr |-> Let(n.ty, LetBinding(n.ty, name, None, n), b.expr), g |-> b.g]

\* the closure of normalize_name, applied to n
name_k(K, n, g) ==
    IF n.k \in {"Lit", "Var"} THEN ApplyK(K, n, g)
    ELSE LET name == Gensym(g)
             b == ApplyK(K, Var(n.ty, name), g + 1)
         IN [expr |-> Let(n.ty, LetBinding(n.ty, name, None, n), b.expr), g |-> b.g]

\* a closure of the If arm that lifts the first Let of the then branch in
\* front of the If
if_k_hoisted(f, K, t, g) ==
    LET th == normalize_expr_inner(f.then, g)
        el == normalize_expr_inner(f.els, th.g)
    IN IF th.expr.k = "Let"
       THEN LET b == ApplyK(K, If(f.ty, t, th.expr.body, el.expr), el.g)
            IN [expr |-> Let(th.expr.ty, th.expr.binding, b.expr), g |-> b.g]
       ELSE ApplyK(K, If(f.ty, t, th.expr, el.expr), el.g)

\* the closure of the If arm, applied to t
if_k(f, K, t, g) ==
    LET th == normalize_expr_inner(f.then, g)
        el == normalize_expr_inner(f.els, th.g)
    IN ApplyK(K, If(f.ty, t, th.expr, el.expr), el.g)

\* the closure of the Let arm, applied to n1: k is handed to the body
let_k(f, K, n1, g) ==
    LET b == normalize(f.body, K, g)
    IN [expr |-> Let(f.ty, [f.binding EXCEPT !.val = n1], b.expr), g |-> b.g]

\* the outer closure of the App arm, applied to t
app_func_k(f, K, t, g) == normalize_name(f.arg, <<AppArgK(f.ty, t)>> \o K, g)

\* the inner closure of the App arm, applied to t2
app_arg_k(f, K, t2, g) == ApplyK(K, App(f.ty, f.func, t2), g)

ApplyK(K, n, g) ==
    CASE K = <<>> -> [expr |-> n, g |-> g]
      [] K # <<>> /\ K[1].k = "NameK" -> name_k(Tail(K), n, g)
      [] K # <<>> /\ K[1].k = "IfK" -> if_k(K[1], Tail(K), n, g)
      [] K # <<>> /\ K[1].k = "LetK" -> let_k(K[1], Tail(K), n, g)
      [] K # <<>> /\ K[1].k = "AppFuncK" -> app_func_k(K[1], Tail(K), n, g)
      [] K # <<>> /\ K[1].k = "AppArgK" -> app_arg_k(K[1], Tail(K), n, g)

normalize(e, K, g) ==
    CASE e.k = "If" -> normalize_name(e.test, <<IfK(e.ty, e.then, e.els)>> \o K, g)
      [] e.k = "Let" -> normalize(e.binding.val, <<LetK(e.ty, e.binding, e.body)>> \o K, g)
      [] e.k = "Lambda" ->
            ApplyK(K, Lambda(e.ty, e.param, normalize_expr_inner(e.body, g).expr),
                   normalize_expr_inner(e.body, g).g)
      [] e.k = "App" -> normalize_name(e.func, <<AppFuncK(e.ty, e.arg)>> \o K, g)
      [] e.k \in {"Lit", "Var"} -> ApplyK(K, e, g)

\* normalize_expr: GENSYM is reset, then normalize_expr_inner
normalize_expr(e) == normalize_expr_inner(e, 0).expr

\* the tree holds a Letrec, on which normalize is todo!()
RECURSIVE HasLetrec(_)
HasLetrec(e) ==
    CASE e.k \in {"Lit", "Var"} -> FALSE
      [] e.k = "If" -> HasLetrec(e.test) \/ HasLetrec(e.then) \/ HasLetrec(e.els)
      [] e.k = "Let" -> HasLetrec(e.binding.val) \/ HasLetrec(e.body)
      [] e.k = "Letrec" -> TRUE
      [] e.k = "Lambda" -> HasLetrec(e.body)
      [] e.k = "App" -> HasLetrec(e.func) \/ HasLetrec(e.arg)

\* the sources of the tests of anf.rs
NormalizeTests ==
    { ALit(LitInt(123)),
      AIf(ALit(LitBool(TRUE)), ALit(LitInt(1)), ALit(LitInt(0))),
      AIf(AIf(ALit(LitBool(FALSE)), ALit(LitBool(TRUE)), ALit(LitBool(FALSE))),
          ALit(LitInt(1)), ALit(LitInt(0))),
      ALet(<<ABinding("abc", None, ALit(LitInt(1)))>>, AVar("abc")),
      ALambda(<<AParam("x", None)>>, AVar("x")),
      ALambda(<<AParam("x", None)>>, ALit(LitInt(1))),
      AApp(AApp(AVar("add"), AApp(AApp(AVar("mul"), ALit(LitInt(2))), ALit(LitInt(4)))),
           AApp(AApp(AVar("mul"), ALit(LitInt(2))), ALit(LitInt(8)))) }

\* well-typed sources with an If whose branch is not an atom
BranchInputs ==
    { AIf(ALit(LitBool(TRUE)),
          AApp(AApp(AVar("add"), ALit(LitInt(1))), ALit(LitInt(2))), ALit(LitInt(0))),
      AIf(ALit(LitBool(TRUE)),
          AIf(ALit(LitBool(FALSE)), ALit(LitInt(1)), ALit(LitInt(2))), ALit(LitInt(0))) }

\* sources in which an operand of an application binds a name that the other
\* operand uses: `\x -> (let x = 1 in not) x` and
\* `let x = true in (let x = false in not) x`
CaptureInputs ==
    { ALambda(<<AParam("x", None)>>,
              AApp(ALet(<<ABinding("x", None, ALit(LitInt(1)))>>, AVar("not")), AVar("x"))),
      ALet(<<ABinding("x", None, ALit(LitBool(TRUE)))>>,
           AApp(ALet(<<ABinding("x", None, ALit(LitBool(FALSE)))>>, AVar("not")), AVar("x"))) }

\* the trees given to normalize_expr: those the builder makes of the surface
\* expressions that draw at most MaxAnfCost type variables, of the tests and
\* of BranchInputs
AnfInputs ==
    {from_ast(a) : a \in UNION {AstOfCost(n) : n \in 1 .. MaxAnfCost}
                          \cup NormalizeTests \cup BranchInputs \cup CaptureInputs}

AnfRun(e) ==
    [kind |-> "anf", input |-> e, once |-> None, twice |-> None, checked |-> None,
     panicked |-> FALSE]

InitAnf ==
    /\ phase = "anf"
    /\ ast = None /\ expr = None /\ cons = <<>> /\ stack = <<>> /\ ret = None
    /\ status = "running"
    /\ lastCon = None /\ lastApplied = None /\ typed = None /\ result = None
    /\ law = None
    /\ pass \in {Some(AnfRun(e)) : e \in AnfInputs}

PipelineIdle ==
    UNCHANGED <<phase, ast, expr, cons, stack, ret, status, lastCon, lastApplied, typed, result, law>>

\* let norm = normalize_expr(expr)
NormalizeExpr ==
    /\ phase = "anf" /\ Get(pass).once = None /\ ~Get(pass).panicked
    /\ IF HasLetrec(Get(pass).input)
       THEN pass' = Some([Get(pass) EXCEPT !.panicked = TRUE])
       ELSE pass' = Some([Get(pass) EXCEPT !.once = Some(normalize_expr(Get(pass).input))])
    /\ PipelineIdle

\* norm.is_anf()
IsAnf ==
    /\ phase = "anf" /\ IsSome(Get(pass).once) /\ Get(pass).checked = None
    /\ pass' = Some([Get(pass) EXCEPT !.checked = Some(is_anf(Get(Get(pass).once)))])
    /\ PipelineIdle

\* normalize_expr(norm)
NormalizeAgain ==
    /\ phase = "anf" /\ IsSome(Get(pass).once) /\ Get(pass).twice = None
    /\ pass' = Some([Get(pass) EXCEPT !.twice = Some(normalize_expr(Get(Get(pass).once)))])
    /\ PipelineIdle

NextAnf ==
    \/ NormalizeExpr
    \/ IsAnf
    \/ NormalizeAgain

SpecAnf == InitAnf /\ [][NextAnf]_vars

----------------------------------------------------------------------------
(* GENSYM, the static Mutex<Gensym> of anf.rs, used by two threads *)

\* the threads that call normalize_expr
Threads == {1, 2}

\* the number of times normalize_expr(e) calls GENSYM.lock().unwrap().next()
Draws(e) == normalize_expr_inner(e, 0).g

\* the name n of a tree normalized alone, as the thread got it: the i-th call
\* of next returned the counter drawn[i]; normalize never reads a name
Drawn(n, drawn) ==
    IF \E i \in 1 .. Len(drawn) : n = Gensym(i - 1)
    THEN Gensym(drawn[CHOOSE i \in 1 .. Len(drawn) : n = Gensym(i - 1)])
    ELSE n

\* the tree normalize_expr returns to a thread whose calls of next returned
\* the counters drawn
RECURSIVE WithDrawn(_, _)
WithDrawn(e, drawn) ==
    CASE e.k = "Lit" -> e
      [] e.k = "Var" -> [e EXCEPT !.name = Drawn(e.name, drawn)]
      [] e.k = "If" ->
            [e EXCEPT !.test = WithDrawn(e.test, drawn), !.then = WithDrawn(e.then, drawn),
                      !.els = WithDrawn(e.els, drawn)]
      [] e.k = "Let" ->
            [e EXCEPT !.binding = [e.binding EXCEPT !.name = Drawn(e.binding.name, drawn),
                                                    !.val = WithDrawn(e.binding.val, drawn)],
                      !.body = WithDrawn(e.body, drawn)]
      [] e.k = "Lambda" -> [e EXCEPT !.body = WithDrawn(e.body, drawn)]
      [] e.k = "App" ->
            [e EXCEPT !.func = WithDrawn(e.func, drawn), !.arg = WithDrawn(e.arg, drawn)]

\* the sources the threads normalize: 123, `add 1 2`, `if (if false then true
\* else false) then 1 else 0` and `add (mul 2 4) (mul 2 8)`
GensymInputs ==
    {from_ast(a) : a \in NormalizeTests \cup
                         {AApp(AApp(AVar("add"), ALit(LitInt(1))), ALit(LitInt(2)))}}

\* a call of normalize_expr(input) in a thread: at is what it does next with
\* GENSYM, drawn the counters its calls of next returned, out what it returned
Call_(e) == [input |-> e, at |-> "reset", drawn |-> <<>>, out |-> None]

GensymRun(e1, e2) == [kind |-> "gensym", counter |-> 0, calls |-> <<Call_(e1), Call_(e2)>>]

InitGensym ==
    /\ phase = "gensym"
    /\ ast = None /\ expr = None /\ cons = <<>> /\ stack = <<>> /\ ret = None
    /\ status = "running"
    /\ lastCon = None /\ lastApplied = None /\ typed = None /\ result = None
    /\ law = None
    /\ pass \in {Some(GensymRun(e1, e2)) : e1 \in GensymInputs, e2 \in GensymInputs}

\* what the call does after a use of GENSYM
After(c, drawn) == IF Len(drawn) < Draws(c.input) THEN "next" ELSE "return"

\* GENSYM.lock().unwrap().reset(): the lock is held for this statement only
GensymReset(t) ==
    /\ phase = "gensym" /\ Get(pass).calls[t].at = "reset"
    /\ pass' = Some([Get(pass) EXCEPT !.counter = 0,
                                      !.calls[t].at = After(Get(pass).calls[t], <<>>)])
    /\ PipelineIdle

\* GENSYM.lock().unwrap().next(): the counter is returned and one is added
GensymNext(t) ==
    /\ phase = "gensym" /\ Get(pass).calls[t].at = "next"
    /\ LET c == Get(pass).calls[t]
           drawn == Append(c.drawn, Get(pass).counter)
       IN pass' = Some([Get(pass) EXCEPT !.counter = @ + 1,
                                         !.calls[t].drawn = drawn,
                                         !.calls[t].at = After(c, drawn)])
    /\ PipelineIdle

\* normalize_expr returns
NormalizeReturn(t) ==
    /\ phase = "gensym" /\ Get(pass).calls[t].at = "return"
    /\ LET c == Get(pass).calls[t]
       IN pass' = Some([Get(pass) EXCEPT
                           !.calls[t].out = Some(WithDrawn(normalize_expr(c.input), c.drawn)),
                           !.calls[t].at = "done"])
    /\ PipelineIdle

NextGensym ==
    \/ \E t \in Threads : GensymReset(t)
    \/ \E t \in Threads : GensymNext(t)
    \/ \E t \in Threads : NormalizeReturn(t)

SpecGensym == InitGensym /\ [][NextGensym]_vars

\* test_normalize: let expr = parse_and_type(src); let norm = normalize_expr(expr)
NormalizeTyped ==
    /\ phase = "done" /\ status = "ok" /\ IsSome(typed) /\ pass = None
    /\ IF HasLetrec(Get(typed))
       THEN pass' = Some([AnfRun(Get(typed)) EXCEPT !.panicked = TRUE])
       ELSE pass' = Some([AnfRun(Get(typed)) EXCEPT !.once = Some(normalize_expr(Get(typed)))])
    /\ PipelineIdle

----------------------------------------------------------------------------
(* Alpha-renaming (codegen-c/rename.rs) *)

\* HashMap<Symbol, Symbol>
EmptyEnv == <<>>
RenameInsert(env, k, v) == (k :> v) @@ env

lookup(env, name) == IF name \in DOMAIN env THEN env[name] ELSE name

\* gen.next() appended to the name; g is the counter of gen
rename_var_unnumbered(name, g) == name \o "$"
rename_var(name, g) == name \o Gensym(g)

\* rename_inner(expr, env, gen) with gen's counter at g: the renamed tree and
\* the counter afterwards
RECURSIVE rename_inner(_, _, _)
RECURSIVE rename_bindings(_, _, _)
RECURSIVE letrec_env(_, _, _)
rename_inner(e, env, g) ==
    CASE e.k = "Lit" -> [expr |-> e, g |-> g]
      [] e.k = "Var" -> [expr |-> [e EXCEPT !.name = lookup(env, e.name)], g |-> g]
      [] e.k = "If" ->
            LET t == rename_inner(e.test, env, g)
                th == rename_inner(e.then, env, t.g)
                el == rename_inner(e.els, env, th.g)
            IN [expr |-> [e EXCEPT !.test = t.expr, !.then = th.expr, !.els = el.expr],
                g |-> el.g]
      [] e.k = "Let" ->
            LET new_name == rename_var(e.binding.name, g)
                ext_env == RenameInsert(env, e.binding.name, new_name)
                v == rename_inner(e.binding.val, env, g + 1)
                b == rename_inner(e.body, ext_env, v.g)
            IN [expr |-> [e EXCEPT !.binding = [e.binding EXCEPT !.name = new_name,
                                                                 !.val = v.expr],
                                   !.body = b.expr],
                g |-> b.g]
      [] e.k = "Letrec" ->
            LET n == Len(e.bindings)
                ext_env == letrec_env(e.bindings, env, g)
                bs == rename_bindings(e.bindings, ext_env, g)
                b == rename_inner(e.body, ext_env, bs.g)
            IN [expr |-> [e EXCEPT !.bindings = bs.bindings, !.body = b.expr], g |-> b.g]
      [] e.k = "Lambda" ->
            LET new_name == rename_var(e.param.name, g)
                ext_env == RenameInsert(env, e.param.name, new_name)
                b == rename_inner(e.body, ext_env, g + 1)
            IN [expr |-> [e EXCEPT !.param = [e.param EXCEPT !.name = new_name],
                                   !.body = b.expr],
                g |-> b.g]
      [] e.k = "App" ->
            LET f == rename_inner(e.func, env, g)
                a == rename_inner(e.arg, env, f.g)
            IN [expr |-> [e EXCEPT !.func = f.expr, !.arg = a.expr], g |-> a.g]

\* a Letrec arm that renames the values and the body under the outer mapping
letrec_env_outer(bs, env, g) == env

\* the first loop of the Letrec arm: a fresh name for each binding, in order
letrec_env(bs, env, g) ==
    IF bs = <<>> THEN env
    ELSE letrec_env(Tail(bs), RenameInsert(env, Head(bs).name, rename_var(Head(bs).name, g)), g + 1)

\* the second loop of the Letrec arm: the i-th binding gets the i-th new name
\* (drawn at counter g0 + i - 1) and its value is renamed under ext_env
RECURSIVE rename_vals(_, _, _, _)
rename_vals(bs, ext_env, g0, g) ==
    IF bs = <<>> THEN [bindings |-> <<>>, g |-> g]
    ELSE LET v == rename_inner(Head(bs).val, ext_env, g)
             rest == rename_vals(Tail(bs), ext_env, g0 + 1, v.g)
         IN [bindings |-> <<[Head(bs) EXCEPT !.name = rename_var(Head(bs).name, g0),
                                             !.val = v.expr]>> \o rest.bindings,
             g |-> rest.g]

rename_bindings(bs, ext_env, g) == rename_vals(bs, ext_env, g, g + Len(bs))

\* rename(expr): an empty environment and a new Gensym
rename(e) == rename_inner(e, EmptyEnv, 0).expr

\* the sources of the tests of rename.rs
RenameTests ==
    { ALet(<<ABinding("x", None, ALit(LitInt(5)))>>,
           ALet(<<ABinding("x", None, ALit(LitBool(FALSE)))>>, AVar("x"))),
      ALetrec(<<ABinding("f", None, ALambda(<<AParam("x", None)>>, AApp(AVar("f"), AVar("x"))))>>,
              AVar("f")),
      ALetrec(<<ABinding("f", None, ALambda(<<AParam("x", None)>>, AApp(AVar("f"), AVar("x")))),
                ABinding("g", None, ALambda(<<AParam("y", None)>>, AApp(AVar("g"), AVar("y"))))>>,
              AApp(AVar("g"), AVar("f"))),
      ALambda(<<AParam("x", None)>>, ALambda(<<AParam("x", None)>>, AVar("x"))) }

\* a name bound twice in one letrec group and again by a parameter; the same
\* parameter name in sibling scopes
ShadowInputs ==
    { ALetrec(<<ABinding("x", None, ALambda(<<AParam("x", None)>>, AVar("x"))),
                ABinding("x", None, ALit(LitInt(1)))>>,
              AVar("x")),
      AApp(ALambda(<<AParam("x", None)>>, AVar("x")), ALambda(<<AParam("x", None)>>, AVar("x"))) }

\* the trees given to rename: those the builder makes of the surface
\* expressions that draw at most MaxRenameCost type variables, of the tests
\* and of ShadowInputs
RenameInputs ==
    {from_ast(a) : a \in UNION {AstOfCost(n) : n \in 1 .. MaxRenameCost}
                          \cup RenameTests \cup ShadowInputs}

RenameRun(e) == [kind |-> "rename", input |-> e, renamed |-> None]

InitRename ==
    /\ phase = "rename"
    /\ ast = None /\ expr = None /\ cons = <<>> /\ stack = <<>> /\ ret = None
    /\ status = "running"
    /\ lastCon = None /\ lastApplied = None /\ typed = None /\ result = None
    /\ law = None
    /\ pass \in {Some(RenameRun(e)) : e \in RenameInputs}

\* let renamed = rename(expr)
Rename ==
    /\ phase = "rename" /\ Get(pass).renamed = None
    /\ pass' = Some([Get(pass) EXCEPT !.renamed = Some(rename(Get(pass).input))])
    /\ PipelineIdle

NextRename == Rename

SpecRename == InitRename /\ [][NextRename]_vars

----------------------------------------------------------------------------
(* Closure conversion (codegen/closure.rs) *)

\* FreeVars = IndexMap<Symbol, Type>: the entries in insertion order
imap(name, ty) == <<[name |-> name, ty |-> ty]>>
Keys(hm) == {hm[i].name : i \in 1 .. Len(hm)}

\* IndexMap::insert: the value of a present key is replaced in place, a new
\* key goes to the end
imap_insert(hm, kv) ==
    IF kv.name \in Keys(hm)
    THEN [i \in 1 .. Len(hm) |-> IF hm[i].name = kv.name THEN kv ELSE hm[i]]
    ELSE Append(hm, kv)

RECURSIVE imap_extend(_, _)
imap_extend(hm1, hm2) ==
    IF hm2 = <<>> THEN hm1 ELSE imap_extend(imap_insert(hm1, Head(hm2)), Tail(hm2))

imap_union(hm1, hm2) == imap_extend(imap_extend(<<>>, hm1), hm2)

imap_diff(hm1, hm2) == SelectSeq(hm1, LAMBDA kv : kv.name \notin Keys(hm2))

RECURSIVE free_vars(_)
RECURSIVE free_vars_fold(_, _)
free_vars(e) ==
    CASE e.k = "Lit" -> <<>>
      [] e.k = "Var" -> imap(e.name, e.ty)
      [] e.k = "If" ->
            imap_union(imap_union(free_vars(e.test), free_vars(e.then)), free_vars(e.els))
      [] e.k = "Let" ->
            imap_diff(imap_union(free_vars(e.binding.val), free_vars(e.body)),
                      imap(e.binding.name, e.binding.ty))
      [] e.k = "Letrec" ->
            imap_diff(free_vars_fold(free_vars(e.body), e.bindings),
                      [i \in 1 .. Len(e.bindings) |->
                          [name |-> e.bindings[i].name, ty |-> e.bindings[i].ty]])
      [] e.k = "Lambda" -> imap_diff(free_vars(e.body), imap(e.param.name, e.param.ty))
      [] e.k = "App" -> imap_union(free_vars(e.func), free_vars(e.arg))

\* bindings.iter().fold(acc, |acc, b| imap_union(acc, free_vars(b.val)))
free_vars_fold(acc, bs) ==
    IF bs = <<>> THEN acc
    ELSE free_vars_fold(imap_union(acc, free_vars(Head(bs).val)), Tail(bs))

\* CExpr
CEnvRef(ty, name) == [k |-> "EnvRef", ty |-> ty, name |-> name]
CLetBinding(ty, name, val) == [ty |-> ty, name |-> name, val |-> val]
MkClosure(ty, param, fv, body) ==
    [k |-> "MkClosure", ty |-> ty, param |-> param, free_vars |-> fv, body |-> body]

\* HashMap<Symbol, CExpr>: the EnvRef of every free variable
EnvRefs(fv) == [n \in Keys(fv) |-> CEnvRef((CHOOSE kv \in {fv[i] : i \in 1 .. Len(fv)} : kv.name = n).ty, n)]

substitute_skipped(e, subst) == e

RECURSIVE substitute(_, _)
substitute(e, subst) ==
    CASE e.k \in {"Lit", "EnvRef"} -> e
      [] e.k = "Var" -> IF e.name \in DOMAIN subst THEN subst[e.name] ELSE e
      [] e.k = "If" ->
            [e EXCEPT !.test = substitute(e.test, subst),
                      !.then = substitute(e.then, subst),
                      !.els = substitute(e.els, subst)]
      [] e.k = "Let" ->
            [e EXCEPT !.binding = [e.binding EXCEPT !.val = substitute(e.binding.val, subst)],
                      !.body = substitute(e.body, subst)]
      [] e.k = "Letrec" ->
            [e EXCEPT !.bindings = [i \in 1 .. Len(e.bindings) |->
                                       [e.bindings[i] EXCEPT
                                           !.val = substitute(e.bindings[i].val, subst)]],
                      !.body = substitute(e.body, subst)]
      [] e.k = "MkClosure" -> [e EXCEPT !.body = substitute(e.body, subst)]
      [] e.k = "App" ->
            [e EXCEPT !.func = substitute(e.func, subst), !.arg = substitute(e.arg, subst)]

RECURSIVE convert(_)
convert(e) ==
    CASE e.k = "Lit" -> [k |-> "Lit", ty |-> e.ty, val |-> e.val]
      [] e.k = "Var" -> [k |-> "Var", ty |-> e.ty, name |-> e.name]
      [] e.k = "If" ->
            [k |-> "If", ty |-> e.ty, test |-> convert(e.test), then |-> convert(e.then),
             els |-> convert(e.els)]
      [] e.k = "Let" ->
            [k |-> "Let", ty |-> e.ty,
             binding |-> CLetBinding(e.binding.ty, e.binding.name, convert(e.binding.val)),
             body |-> convert(e.body)]
      [] e.k = "Letrec" ->
            [k |-> "Letrec", ty |-> e.ty,
             bindings |-> [i \in 1 .. Len(e.bindings) |->
                              CLetBinding(e.bindings[i].ty, e.bindings[i].name,
                                          convert(e.bindings[i].val))],
             body |-> convert(e.body)]
      [] e.k = "Lambda" ->
            LET fv == free_vars(e)
                subst == EnvRefs(fv)
            IN MkClosure(e.ty, e.param, fv, substitute(convert(e.body), subst))
      [] e.k = "App" ->
            [k |-> "App", ty |-> e.ty, func |-> convert(e.func), arg |-> convert(e.arg)]

\* sources with closures that capture parameters and let-bound variables
\* (codegen/test.rs, compile_lambda and compile_app)
ClosureTests ==
    { ALet(<<ABinding("x", None, ALit(LitInt(5)))>>,
           ALambda(<<AParam("y", Some(TInt))>>, AVar("x"))),
      ALambda(<<AParam("x", Some(TInt))>>, AVar("x")),
      ALet(<<ABinding("x", None, ALit(LitInt(5))),
             ABinding("f", None, ALambda(<<AParam("y", None)>>, AVar("x")))>>,
           AApp(AVar("f"), ALit(LitInt(555)))),
      ALet(<<ABinding("ifThenElse", None,
                 ALambda(<<AParam("b", None), AParam("x", None), AParam("y", None)>>,
                         AIf(AVar("b"), AVar("x"), AVar("y"))))>>,
           AApp(AApp(AApp(AVar("ifThenElse"), ALit(LitBool(FALSE))), ALit(LitInt(5))),
                ALit(LitInt(10)))),
      ALet(<<ABinding("x", None, ALit(LitInt(5))),
             ABinding("const5", None, ALambda(<<AParam("y", Some(TInt))>>, AVar("x"))),
             ABinding("apply", None, ALambda(<<AParam("f", None), AParam("x", None)>>,
                                             AApp(AVar("f"), AVar("x"))))>>,
           AApp(AApp(AVar("apply"), AVar("const5")), ALit(LitInt(0)))) }

\* a lambda that captures x and holds a lambda whose parameter is x
ShadowedCapture ==
    ALambda(<<AParam("y", None)>>, AApp(ALambda(<<AParam("x", None)>>, AVar("x")), AVar("x")))

\* the trees given to the passes: those the builder makes of the letrec-free
\* surface expressions that draw at most MaxClosureCost type variables, and
\* of the tests
ClosureInputs ==
    {e \in {from_ast(a) : a \in UNION {AstOfCost(n) : n \in 1 .. MaxClosureCost}
                                 \cup ClosureTests \cup {ShadowedCapture}} : ~HasLetrec(e)}

ClosureRun(e) ==
    [kind |-> "closure", input |-> e, anf |-> None, renamed |-> None, converted |-> None,
     fv |-> None, cexpr |-> None]

InitClosure ==
    /\ phase = "closure"
    /\ ast = None /\ expr = None /\ cons = <<>> /\ stack = <<>> /\ ret = None
    /\ status = "running"
    /\ lastCon = None /\ lastApplied = None /\ typed = None /\ result = None
    /\ law = None
    /\ pass \in {Some(ClosureRun(e)) : e \in ClosureInputs}

\* the ANF pass
AnfPass ==
    /\ phase = "closure" /\ Get(pass).anf = None
    /\ pass' = Some([Get(pass) EXCEPT !.anf = Some(normalize_expr(Get(pass).input))])
    /\ PipelineIdle

\* the rename pass, on the normalized tree
RenamePass ==
    /\ phase = "closure" /\ IsSome(Get(pass).anf) /\ Get(pass).renamed = None
    /\ pass' = Some([Get(pass) EXCEPT !.renamed = Some(rename(Get(Get(pass).anf)))])
    /\ PipelineIdle

\* let cexpr = convert(expr)
Convert ==
    /\ phase = "closure" /\ IsSome(Get(pass).renamed) /\ Get(pass).converted = None
    /\ pass' = Some([Get(pass) EXCEPT !.converted = Some(convert(Get(Get(pass).renamed)))])
    /\ PipelineIdle

\* free_vars(&expr), on the tree as it was parsed
FreeVars ==
    /\ phase = "closure" /\ Get(pass).fv = None
    /\ pass' = Some([Get(pass) EXCEPT !.fv = Some(free_vars(Get(pass).input))])
    /\ PipelineIdle

\* let cexpr = convert(expr), on the tree as the type checker returned it
ConvertExpr ==
    /\ phase = "closure" /\ Get(pass).cexpr = None
    /\ pass' = Some([Get(pass) EXCEPT !.cexpr = Some(convert(Get(pass).input))])
    /\ PipelineIdle

NextClosure ==
    \/ AnfPass
    \/ RenamePass
    \/ Convert

SpecClosure == InitClosure /\ [][NextClosure]_vars

\* free_vars and convert called on a tree no pass has rewritten
NextConvert ==
    \/ FreeVars
    \/ ConvertExpr

SpecConvert == InitClosure /\ [][NextConvert]_vars

----------------------------------------------------------------------------
(* Code generation (codegen/llvm.rs): the module the builder emits *)

\* The compiler state M: the functions of the module, each a list of basic
\* blocks, each a list of instructions; the builder's position cur = <<function,
\* block>>; the number n of the next instruction; err, the panic that ended
\* the compilation, if any.  Once err is set nothing more is emitted.
NewModule == [fns |-> <<>>, cur |-> <<0, 0>>, n |-> 0, err |-> None]

Fail(M, why) == IF IsSome(M.err) THEN M ELSE [M EXCEPT !.err = Some(why)]

\* Type::llvm_type
llvm_type(ty) ==
    CASE ty = TBool -> "i1"
      [] ty = TInt -> "i64"
      [] ty = TFloat -> "double"
      [] IsFn(ty) -> "Closure"
      [] IsVar(ty) -> "panic"

\* the call ty.llvm_type(self): a panic on a type variable
Lower(M, ty) == IF IsVar(ty) THEN Fail(M, "Cannot instantiate type") ELSE M

void_ptr_ty == "i8*"
closure_ty == "Closure"

\* values: constants, function parameters, functions, results of instructions
Const(ty, v) == [k |-> "const", ty |-> ty, v |-> v]
ParamVal(f, i) == [k |-> "param", fn |-> f, idx |-> i]
FnVal(f) == [k |-> "fn", fn |-> f]
Reg(id) == [k |-> "reg", id |-> id]

\* module.add_function: the new function is the last one
add_function(M, name) ==
    IF IsSome(M.err) THEN M
    ELSE [M EXCEPT !.fns = Append(@, [name |-> name, blocks |-> <<>>])]
LastFn(M) == Len(M.fns)

\* llvm.append_basic_block(f, label): the new block is the last one of f
append_basic_block(M, f, label) ==
    IF IsSome(M.err) THEN M
    ELSE [M EXCEPT !.fns[f].blocks = Append(@, [label |-> label, instrs |-> <<>>])]
get_last_basic_block(M, f) == Len(M.fns[f].blocks)

\* builder.position_at_end
position_at_end(M, f, b) == IF IsSome(M.err) THEN M ELSE [M EXCEPT !.cur = <<f, b>>]
get_insert_block(M) == M.cur[2]

\* builder.build_*: the instruction goes to the end of the current block; its
\* result is Reg(M.n) for the M before the call
Build_(M, op, args, aux) ==
    IF IsSome(M.err) THEN M
    ELSE [M EXCEPT !.fns[M.cur[1]].blocks[M.cur[2]].instrs =
                        Append(@, [op |-> op, id |-> M.n, args |-> args, aux |-> aux]),
                   !.n = @ + 1]

\* Ctx: env maps a name to the pointer of its stack slot
NewCtx(parent) == [env |-> <<>>, parent |-> parent, name |-> None]

\* env_ty: the IR type of every captured variable, in the order of free_vars
RECURSIVE env_ty(_, _)
env_ty(M, fv) == IF fv = <<>> THEN M ELSE env_ty(Lower(M, Head(fv).ty), Tail(fv))

compile_lit(val) ==
    CASE val[1] = "Bool" -> Const("i1", IF val[2] THEN 1 ELSE 0)
      [] val[1] = "Int" -> Const("i64", val[2])
      [] val[1] = "Float" -> Const("double", val[2])

\* ctx.env.get(&name).unwrap(), then a load from the slot
compile_var(ctx, name, M) ==
    IF name \notin DOMAIN ctx.env
    THEN [val |-> Reg(M.n), M |-> Fail(M, "unwrap on None")]
    ELSE [val |-> Reg(M.n), M |-> Build_(M, "load", <<ctx.env[name]>>, name)]

\* compile_lambda, the loop that fills the environment record: for the idx-th
\* captured variable a gep into env_val, the variable read in ctx, a store
RECURSIVE store_captured(_, _, _, _, _)
store_captured(ctx, fv, idx, env_val, M) ==
    IF idx > Len(fv) THEN M
    ELSE LET gep == Reg(M.n)
             M1 == Build_(M, "gep", <<env_val>>, idx - 1)
             v == compile_var(ctx, fv[idx].name, M1)
             M2 == Build_(v.M, "store", <<gep, v.val>>, "")
         IN store_captured(ctx, fv, idx + 1, env_val, M2)

\* compile_function, the loop that loads the captured environment: for the
\* idx-th captured variable a slot, a gep into env_val, a load and a store;
\* the slot is entered into ctx.env.  The result is the extended env and M.
RECURSIVE load_captured(_, _, _, _, _)
load_captured(env, fv, idx, env_val, M) ==
    IF idx > Len(fv) THEN [env |-> env, M |-> M]
    ELSE LET M0 == Lower(M, fv[idx].ty)
             slot == Reg(M0.n)
             M1 == Build_(M0, "alloca", <<>>, llvm_type(fv[idx].ty))
             gep == Reg(M1.n)
             M2 == Build_(M1, "gep", <<env_val>>, idx - 1)
             val == Reg(M2.n)
             M3 == Build_(M2, "load", <<gep>>, fv[idx].name)
             M4 == Build_(M3, "store", <<slot, val>>, "")
         IN load_captured((fv[idx].name :> slot) @@ env, fv, idx + 1, env_val, M4)

\* The compiler runs as a machine C: the module M under construction, the
\* stack of what is left to do (its last element is done next) and the
\* values the finished calls of compile_expr returned.  A call of
\* compile_expr is the task Expr; the code of a compile_* function after a
\* nested call of compile_expr is a task of its own.
TExpr(ctx, e) == [k |-> "expr", ctx |-> ctx, e |-> e]
TIfTest(ctx, e) == [k |-> "if_test", ctx |-> ctx, e |-> e]
TIfThen(ctx, e, else_bb0, cont_bb) ==
    [k |-> "if_then", ctx |-> ctx, e |-> e, else_bb0 |-> else_bb0, cont_bb |-> cont_bb]
TIfElse(ctx, e, then_bb, cont_bb) ==
    [k |-> "if_else", ctx |-> ctx, e |-> e, then_bb |-> then_bb, cont_bb |-> cont_bb]
TLetVal(ctx, e, alloca) == [k |-> "let_val", ctx |-> ctx, e |-> e, alloca |-> alloca]
\* at is where the builder stood when compile_lambda was called; the code
\* keeps no such value
TFunctionBody(ctx, e, fn_val, at) ==
    [k |-> "function_body", ctx |-> ctx, e |-> e, fn_val |-> fn_val, at |-> at]
TAppFunc(ctx, e) == [k |-> "app_func", ctx |-> ctx, e |-> e]
TAppArg(fn_val, env_val) == [k |-> "app_arg", fn_val |-> fn_val, env_val |-> env_val]
TToplevelBody == [k |-> "toplevel_body"]

\* the next tasks, the first of ts first
Do(C, M, ts) ==
    [C EXCEPT !.M = M, !.tasks = @ \o [i \in 1 .. Len(ts) |-> ts[Len(ts) + 1 - i]]]
\* a call of compile_expr returns val
Return(C, M, val) == [C EXCEPT !.M = M, !.vals = Append(@, val)]
\* the value the last finished call returned, and the machine without it
Returned1(C) == C.vals[Len(C.vals)]
Returned2(C) == C.vals[Len(C.vals) - 1]
Drop(C, n) == [C EXCEPT !.vals = SubSeq(@, 1, Len(@) - n)]

\* compile_if up to the call that compiles the test
compile_if(C, ctx, e) ==
    LET Ma == IF e.test.ty # TBool THEN Fail(C.M, "assertion failed") ELSE C.M
    IN Do(C, Ma, <<TExpr(ctx, e.test), TIfTest(ctx, e)>>)

\* compile_if from the test to the call that compiles the then branch
compile_if_test(C, ctx, e) ==
    LET test_val == Returned1(C)
        Mb == Lower(Lower(C.M, e.then.ty), e.els.ty)
        Mc == IF llvm_type(e.then.ty) # llvm_type(e.els.ty)
              THEN Fail(Mb, "assertion failed") ELSE Mb
        cmp == Reg(Mc.n)
        M1 == Build_(Mc, "icmp", <<test_val, Const("i1", 1)>>, "eq")
        M2 == append_basic_block(M1, ctx.parent, "then")
        then_bb0 == get_last_basic_block(M2, ctx.parent)
        M3 == append_basic_block(M2, ctx.parent, "else")
        else_bb0 == get_last_basic_block(M3, ctx.parent)
        M4 == append_basic_block(M3, ctx.parent, "cont")
        cont_bb == get_last_basic_block(M4, ctx.parent)
        M5 == Build_(M4, "condbr", <<cmp>>, <<then_bb0, else_bb0>>)
        M6 == position_at_end(M5, ctx.parent, then_bb0)
    IN IF IsSome(Mc.err) THEN Do(Drop(C, 1), Mc, <<>>)
       ELSE Do(Drop(C, 1), M6, <<TExpr(ctx, e.then), TIfThen(ctx, e, else_bb0, cont_bb)>>)

\* compile_if from the then branch to the call that compiles the else branch;
\* then_val stays on the stack of values
compile_if_then(C, t) ==
    LET M7 == Build_(C.M, "br", <<>>, <<t.cont_bb>>)
        then_bb == get_insert_block(M7)
        M8 == position_at_end(M7, t.ctx.parent, t.else_bb0)
    IN Do(C, M8, <<TExpr(t.ctx, t.e.els), TIfElse(t.ctx, t.e, then_bb, t.cont_bb)>>)

\* compile_if after the else branch: the branches are merged
compile_if_else(C, t) ==
    LET then_val == Returned2(C)
        else_val == Returned1(C)
        M9 == Build_(C.M, "br", <<>>, <<t.cont_bb>>)
        else_bb == get_insert_block(M9)
        M10 == position_at_end(M9, t.ctx.parent, t.cont_bb)
        phi == Reg(M10.n)
        M11 == Build_(M10, "phi", <<then_val, else_val>>, <<t.then_bb, else_bb>>)
    IN Return(Drop(C, 2), M11, phi)

\* compile_let up to the call that compiles the bound value
compile_let(C, ctx, e) ==
    LET M0 == Lower(C.M, e.binding.ty)
        alloca == Reg(M0.n)
        M1 == Build_(M0, "alloca", <<>>, llvm_type(e.binding.ty))
    IN Do(C, M1, <<TExpr([ctx EXCEPT !.name = Some(e.binding.name)], e.binding.val),
                   TLetVal(ctx, e, alloca)>>)

\* compile_let from the bound value on; the body's value is the let's value
compile_let_val(C, t) ==
    LET value == Returned1(C)
        M2 == Build_(C.M, "store", <<t.alloca, value>>, "")
        ctx2 == [t.ctx EXCEPT !.env = (t.e.binding.name :> t.alloca) @@ t.ctx.env]
    IN Do(Drop(C, 1), M2, <<TExpr(ctx2, t.e.body)>>)

\* compile_lambda up to the call, in compile_function, that compiles the body
compile_lambda(C, ctx, e) ==
    LET Me == env_ty(C.M, e.free_vars)
        fn_name == IF IsSome(ctx.name) THEN Get(ctx.name) ELSE "lambda"
        M0 == Lower(Lower(Me, e.body.ty), e.param.ty)
        M1 == add_function(M0, fn_name)
        fn_val == LastFn(M1)
        M2 == append_basic_block(M1, fn_val, "entry")
        M3 == position_at_end(M2, fn_val, 1)
        \* load captured env
        env_alloca == Reg(M3.n)
        M4 == Build_(M3, "alloca", <<>>, void_ptr_ty)
        M5 == Build_(M4, "store", <<env_alloca, ParamVal(fn_val, 0)>>, "")
        env_val0 == Reg(M5.n)
        M6 == Build_(M5, "load", <<env_alloca>>, "env")
        env_val == Reg(M6.n)
        M7 == Build_(M6, "bitcast", <<env_val0>>, "Env*")
        cap == load_captured(ctx.env, e.free_vars, 1, env_val, M7)
        \* load param
        M8 == Lower(cap.M, e.param.ty)
        param_alloca == Reg(M8.n)
        M9 == Build_(M8, "alloca", <<>>, llvm_type(e.param.ty))
        M10 == Build_(M9, "store", <<param_alloca, ParamVal(fn_val, 1)>>, "")
        ctx2 == [ctx EXCEPT !.env = (e.param.name :> param_alloca) @@ cap.env,
                            !.parent = fn_val]
    IN IF IsSome(M0.err) THEN Do(C, M0, <<>>)
       ELSE Do(C, M10, <<TExpr(ctx2, e.body), TFunctionBody(ctx, e, fn_val, C.M.cur)>>)

\* the end of compile_function, and compile_lambda after it
compile_function_body(C, t) ==
    LET body == Returned1(C)
        Mr == Build_(C.M, "ret", <<body>>, "")
        M1 == position_at_end(Mr, t.ctx.parent, get_last_basic_block(Mr, t.ctx.parent))
        closure == Reg(M1.n)
        M2 == Build_(M1, "alloca", <<>>, closure_ty)
        code_gep == Reg(M2.n)
        M3 == Build_(M2, "gep", <<closure>>, 0)
        code == Reg(M3.n)
        M4 == Build_(M3, "bitcast", <<FnVal(t.fn_val)>>, void_ptr_ty)
        M5 == Build_(M4, "store", <<code_gep, code>>, "")
        env_gep == Reg(M5.n)
        M6 == Build_(M5, "gep", <<closure>>, 1)
        env_val == Reg(M6.n)
        M7 == Build_(M6, "malloc", <<>>, Len(t.e.free_vars))
        M8 == store_captured(t.ctx, t.e.free_vars, 1, env_val, M7)
        env_cast == Reg(M8.n)
        M9 == Build_(M8, "bitcast", <<env_val>>, void_ptr_ty)
        M10 == Build_(M9, "store", <<env_gep, env_cast>>, "")
        val == Reg(M10.n)
        M11 == Build_(M10, "load", <<closure>>, "closure")
    IN Return(Drop(C, 1), M11, val)

\* compile_app up to the call that compiles the function
compile_app(C, ctx, e) == Do(C, C.M, <<TExpr(ctx, e.func), TAppFunc(ctx, e)>>)

\* compile_app from the function to the call that compiles the argument
compile_app_func(C, t) ==
    LET closure == Returned1(C)
        closure_alloca == Reg(C.M.n)
        M1 == Build_(C.M, "alloca", <<>>, closure_ty)
        M2 == Build_(M1, "store", <<closure_alloca, closure>>, "")
        fn_gep == Reg(M2.n)
        M3 == Build_(M2, "gep", <<closure_alloca>>, 0)
        fn_val0 == Reg(M3.n)
        M4 == Build_(M3, "load", <<fn_gep>>, "closure.fn")
        M5 == Lower(Lower(M4, t.e.ty), t.e.arg.ty)
        fn_val == Reg(M5.n)
        M6 == Build_(M5, "bitcast", <<fn_val0>>, "fn*")
        env_gep == Reg(M6.n)
        M7 == Build_(M6, "gep", <<closure_alloca>>, 1)
        env_val == Reg(M7.n)
        M8 == Build_(M7, "load", <<env_gep>>, "closure.env")
    IN Do(Drop(C, 1), M8, <<TExpr(t.ctx, t.e.arg), TAppArg(fn_val, env_val)>>)

\* compile_app after the argument: the call
compile_app_arg(C, t) ==
    LET arg_val == Returned1(C)
        call == Reg(C.M.n)
        M9 == Build_(C.M, "call", <<t.fn_val, t.env_val, arg_val>>, "")
    IN Return(Drop(C, 1), M9, call)

compile_expr(C, ctx, e) ==
    CASE e.k = "Lit" -> Return(C, C.M, compile_lit(e.val))
      [] e.k \in {"Var", "EnvRef"} ->
            LET v == compile_var(ctx, e.name, C.M) IN Return(C, v.M, v.val)
      [] e.k = "If" -> compile_if(C, ctx, e)
      [] e.k = "Let" -> compile_let(C, ctx, e)
      [] e.k = "MkClosure" -> compile_lambda(C, ctx, e)
      [] e.k = "App" -> compile_app(C, ctx, e)
      [] e.k = "Letrec" -> Do(C, Fail(C.M, "not yet implemented"), <<>>)

\* compile_toplevel up to the call that compiles the expression
compile_toplevel(e) ==
    LET M0 == Lower(NewModule, e.ty)
        M1 == add_function(M0, "toplevel")
        M2 == append_basic_block(M1, 1, "toplevel_entry")
        M3 == position_at_end(M2, 1, 1)
    IN [M |-> M3, tasks |-> <<TToplevelBody, TExpr(NewCtx(1), e)>>, vals |-> <<>>]

\* compile_toplevel after the expression: build_return
compile_toplevel_body(C) ==
    Do(Drop(C, 1), Build_(C.M, "ret", <<Returned1(C)>>, ""), <<>>)

\* the compiler does the task on top of its stack
compile_step(C) ==
    LET t == C.tasks[Len(C.tasks)]
        C0 == [C EXCEPT !.tasks = SubSeq(@, 1, Len(@) - 1)]
    IN CASE t.k = "expr" -> compile_expr(C0, t.ctx, t.e)
         [] t.k = "if_test" -> compile_if_test(C0, t.ctx, t.e)
         [] t.k = "if_then" -> compile_if_then(C0, t)
         [] t.k = "if_else" -> compile_if_else(C0, t)
         [] t.k = "let_val" -> compile_let_val(C0, t)
         [] t.k = "function_body" -> compile_function_body(C0, t)
         [] t.k = "app_func" -> compile_app_func(C0, t)
         [] t.k = "app_arg" -> compile_app_arg(C0, t)
         [] t.k = "toplevel_body" -> compile_toplevel_body(C0)

\* the compilation has ended: nothing is left to do, or it panicked
Compiled(C) == C.tasks = <<>> \/ IsSome(C.M.err)

\* module.verify(), the part of it modelled: every basic block ends with a
\* terminator and has none before its end, and every instruction result or
\* parameter used in a function belongs to that function
IsTerminator(i) == i.op \in {"ret", "br", "condbr"}

BlockTerminated(blk) ==
    /\ blk.instrs # <<>>
    /\ \A i \in 1 .. Len(blk.instrs) : IsTerminator(blk.instrs[i]) <=> i = Len(blk.instrs)

DefinedIn(fn) ==
    UNION {{fn.blocks[b].instrs[i].id : i \in 1 .. Len(fn.blocks[b].instrs)} :
           b \in 1 .. Len(fn.blocks)}

ValueLocal(M, f, v) ==
    CASE v.k = "reg" -> v.id \in DefinedIn(M.fns[f])
      [] v.k = "param" -> v.fn = f
      [] v.k \in {"const", "fn"} -> TRUE

FunctionLocal(M, f) ==
    \A b \in 1 .. Len(M.fns[f].blocks) :
        \A i \in 1 .. Len(M.fns[f].blocks[b].instrs) :
            \A a \in 1 .. Len(M.fns[f].blocks[b].instrs[i].args) :
                ValueLocal(M, f, M.fns[f].blocks[b].instrs[i].args[a])

verify(M) ==
    \A f \in 1 .. Len(M.fns) :
        /\ \A b \in 1 .. Len(M.fns[f].blocks) : BlockTerminated(M.fns[f].blocks[b])
        /\ FunctionLocal(M, f)

----------------------------------------------------------------------------
(* Execution of the emitted module (codegen/test.rs, the JIT call of toplevel) *)

\* run-time values; a memory is a sequence of cells, a pointer names a cell
\* (field = -1) or a field of the struct in it
IntV(n) == [k |-> "int", v |-> n]
PtrV(addr, field) == [k |-> "ptr", addr |-> addr, field |-> field]
FnPtrV(f) == [k |-> "fnptr", fn |-> f]
StructV(fields) == [k |-> "struct", fields |-> fields]
Undef == [k |-> "undef"]

Load(mem, p) == IF p.field = -1 THEN mem[p.addr] ELSE mem[p.addr].fields[p.field + 1]
Store(mem, p, v) ==
    IF p.field = -1 THEN [mem EXCEPT ![p.addr] = v]
    ELSE [mem EXCEPT ![p.addr].fields[p.field + 1] = v]

Operand(v, regs, args) ==
    CASE v.k = "const" -> IntV(v.v)
      [] v.k = "param" -> args[v.idx + 1]
      [] v.k = "fn" -> FnPtrV(v.fn)
      [] v.k = "reg" -> regs[v.id]

\* the cell a stack slot or a heap record starts with
NewCell(ins) ==
    IF ins.op = "malloc" THEN StructV([j \in 1 .. ins.aux |-> Undef])
    ELSE IF ins.aux = closure_ty THEN StructV(<<Undef, Undef>>)
    ELSE Undef

\* a call frame: function f at the i-th instruction of block b, entered from
\* block prev; dst is the instruction of the caller that receives the result
CallFrame(f, args, dst) ==
    [f |-> f, b |-> 1, i |-> 1, prev |-> 0, regs |-> <<>>, args |-> args, dst |-> dst]

\* the machine that runs toplevel: the call stack, the memory, the value
\* toplevel returned
StartMachine == [frames |-> <<CallFrame(1, <<>>, -1)>>, mem |-> <<>>, value |-> None]

\* one instruction of the function on top of the call stack
exec_step(M, X) ==
    LET n == Len(X.frames)
        fr == X.frames[n]
        ins == M.fns[fr.f].blocks[fr.b].instrs[fr.i]
        A(j) == Operand(ins.args[j], fr.regs, fr.args)
        Step(v, mem2) ==
            [X EXCEPT !.frames[n] = [fr EXCEPT !.regs = (ins.id :> v) @@ fr.regs, !.i = fr.i + 1],
                      !.mem = mem2]
        Jump(target) ==
            [X EXCEPT !.frames[n] = [fr EXCEPT !.b = target, !.i = 1, !.prev = fr.b]]
    IN CASE ins.op \in {"alloca", "malloc"} ->
                Step(PtrV(Len(X.mem) + 1, -1), Append(X.mem, NewCell(ins)))
         [] ins.op = "gep" -> Step(PtrV(A(1).addr, ins.aux), X.mem)
         [] ins.op = "bitcast" -> Step(A(1), X.mem)
         [] ins.op = "load" -> Step(Load(X.mem, A(1)), X.mem)
         [] ins.op = "store" -> Step(Undef, Store(X.mem, A(1), A(2)))
         [] ins.op = "icmp" -> Step(IntV(IF A(1) = A(2) THEN 1 ELSE 0), X.mem)
         [] ins.op = "phi" -> Step(IF fr.prev = ins.aux[1] THEN A(1) ELSE A(2), X.mem)
         [] ins.op = "call" ->
                [X EXCEPT !.frames = Append(@, CallFrame(A(1).fn, <<A(2), A(3)>>, ins.id))]
         [] ins.op = "br" -> Jump(ins.aux[1])
         [] ins.op = "condbr" -> Jump(IF A(1).v = 1 THEN ins.aux[1] ELSE ins.aux[2])
         [] ins.op = "ret" ->
                IF n = 1 THEN [X EXCEPT !.frames = <<>>, !.value = Some(A(1))]
                ELSE LET caller == X.frames[n - 1]
                     IN [X EXCEPT !.frames =
                            Append(SubSeq(X.frames, 1, n - 2),
                                   [caller EXCEPT !.regs = (fr.dst :> A(1)) @@ caller.regs,
                                                  !.i = caller.i + 1])]

----------------------------------------------------------------------------
(* The code generation tests: from_str, infer_and_apply, convert,
   compile_toplevel, verify, call *)

IntLam(x, body) == ALambda(<<AParam(x, Some(TInt))>>, body)

\* the sources of compile_lit, compile_vars, compile_if, compile_lambda and
\* compile_app (those without operators)
CompileTests ==
    { ALit(LitInt(0)), ALit(LitInt(1)), ALit(LitBool(TRUE)), ALit(LitBool(FALSE)),
      ALet(<<ABinding("x", None, ALit(LitInt(5)))>>, AVar("x")),
      AIf(ALit(LitBool(TRUE)), ALit(LitInt(5)), ALit(LitInt(10))),
      AIf(ALit(LitBool(FALSE)), ALit(LitInt(5)), ALit(LitInt(10))),
      ALet(<<ABinding("f", None, ALambda(<<AParam("b", None)>>,
                                         AIf(AVar("b"), ALit(LitInt(5)), ALit(LitInt(10)))))>>,
           AApp(AVar("f"), ALit(LitBool(TRUE)))),
      ALet(<<ABinding("x", None, ALit(LitInt(5)))>>, IntLam("y", AVar("x"))),
      IntLam("x", AVar("x")),
      ALet(<<ABinding("x", None, ALit(LitInt(5))),
             ABinding("f", None, ALambda(<<AParam("y", None)>>, AVar("x")))>>,
           AApp(AVar("f"), ALit(LitInt(555)))) }

\* let x = 5, f = \ignored -> x in f 100
CapturedLet ==
    ALet(<<ABinding("x", None, ALit(LitInt(5))),
           ABinding("f", None, ALambda(<<AParam("ignored", None)>>, AVar("x")))>>,
         AApp(AVar("f"), ALit(LitInt(100))))

\* well-typed sources without let-bound lambdas: closures applied to their
\* arguments, closures that capture a parameter, closures made in the branch
\* of an if, a let that shadows a captured name
ClosurePrograms ==
    { AApp(IntLam("x", AVar("x")), ALit(LitInt(5))),
      AApp(AApp(IntLam("x", IntLam("y", AVar("x"))), ALit(LitInt(1))), ALit(LitInt(2))),
      AApp(AApp(IntLam("x", IntLam("y", AVar("y"))), ALit(LitInt(1))), ALit(LitInt(2))),
      AApp(IntLam("b", AIf(ALit(LitBool(TRUE)), AVar("b"), ALit(LitInt(7)))), ALit(LitInt(3))),
      AIf(ALit(LitBool(TRUE)), IntLam("x", AVar("x")), IntLam("y", ALit(LitInt(0)))),
      AApp(AIf(ALit(LitBool(FALSE)), IntLam("x", AVar("x")), IntLam("y", ALit(LitInt(0)))),
           ALit(LitInt(3))),
      ALet(<<ABinding("x", None, ALit(LitInt(5)))>>,
           AApp(IntLam("y", ALet(<<ABinding("x", None, AVar("x"))>>, AVar("x"))),
                ALit(LitInt(1)))),
      ALet(<<ABinding("x", None, ALit(LitInt(5)))>>,
           AApp(IntLam("y", AVar("x")), ALit(LitInt(100)))),
      ALambda(<<AParam("x", None)>>, AVar("x")),
      AApp(AApp(AVar("add"), ALit(LitInt(1))), ALit(LitInt(2))) }

CodegenInputs ==
    UNION {AstOfCost(n) : n \in 1 .. MaxCodegenCost}
    \cup CompileTests \cup {CapturedLet} \cup ClosurePrograms

CodegenRun(c) ==
    [kind |-> "codegen", cexpr |-> c, compiler |-> None, module |-> None, verified |-> None,
     exec |-> None]

InitCodegen ==
    /\ phase = "build"
    /\ ast \in {Some(a) : a \in CodegenInputs}
    /\ expr = None /\ cons = <<>> /\ stack = <<>> /\ ret = None
    /\ status = "running"
    /\ lastCon = None /\ lastApplied = None /\ typed = None /\ result = None
    /\ law = None
    /\ pass = None

\* let cexpr = convert(expr), for expr the tree infer_and_apply returned
ConvertTyped ==
    /\ phase = "done" /\ status = "ok" /\ IsSome(typed) /\ pass = None
    /\ pass' = Some(CodegenRun(convert(Get(typed))))
    /\ PipelineIdle

\* compiler.compile_toplevel(&cexpr) is called
CompileToplevel ==
    /\ IsSome(pass) /\ Get(pass).kind = "codegen" /\ Get(pass).compiler = None
    /\ pass' = Some([Get(pass) EXCEPT !.compiler = Some(compile_toplevel(Get(pass).cexpr))])
    /\ PipelineIdle

\* the compiler does one task; when it has ended, module is what it built
CompileStep ==
    /\ IsSome(pass) /\ Get(pass).kind = "codegen" /\ IsSome(Get(pass).compiler)
    /\ Get(pass).module = None
    /\ LET C == Get(Get(pass).compiler)
           C2 == IF Compiled(C) THEN C ELSE compile_step(C)
       IN pass' = Some([Get(pass) EXCEPT !.compiler = Some(C2),
                                         !.module = IF Compiled(C2) THEN Some(C2.M) ELSE None])
    /\ PipelineIdle

\* module.verify()
Verify ==
    /\ IsSome(pass) /\ Get(pass).kind = "codegen" /\ IsSome(Get(pass).module)
    /\ Get(Get(pass).module).err = None /\ Get(pass).verified = None
    /\ pass' = Some([Get(pass) EXCEPT !.verified = Some(verify(Get(Get(pass).module)))])
    /\ PipelineIdle

\* exec_engine.get_function("toplevel") on the verified module, then f.call()
Call ==
    /\ IsSome(pass) /\ Get(pass).kind = "codegen"
    /\ Get(pass).verified = Some(TRUE) /\ Get(pass).exec = None
    /\ pass' = Some([Get(pass) EXCEPT !.exec = Some(StartMachine)])
    /\ PipelineIdle

\* the called code runs one instruction
ExecStep ==
    /\ IsSome(pass) /\ Get(pass).kind = "codegen"
    /\ IsSome(Get(pass).exec) /\ Get(Get(pass).exec).frames # <<>>
    /\ pass' = Some([Get(pass) EXCEPT
                        !.exec = Some(exec_step(Get(Get(pass).module), Get(Get(pass).exec)))])
    /\ PipelineIdle

NextCodegen ==
    \/ Next
    \/ ConvertTyped
    \/ CompileToplevel
    \/ CompileStep
    \/ Verify
    \/ Call
    \/ ExecStep

SpecCodegen == InitCodegen /\ [][NextCodegen]_vars

\* the type checker, then the ANF pass on the tree it returned
NextNormalize ==
    \/ Next
    \/ NormalizeTyped

SpecNormalize == InitCodegen /\ [][NextNormalize]_vars

----------------------------------------------------------------------------
(* Properties *)

\* the outermost call of unify has returned a substitution
Returned == stack = <<>> /\ IsSome(ret)

\* subst makes the two sides of con equal, whatever the iteration order
Unified(con, subst) ==
    \A a \in TypeApplyResults(con[1], subst), b \in TypeApplyResults(con[2], subst) : a = b

\* C1: whenever unify returns a substitution for a constraint list, applying
\* it to the two sides of every constraint of the list gives equal types.
C1_UnifierSound ==
    Returned => \A i \in 1 .. Len(cons) : Unified(cons[i], Get(ret))

\* t carries, at every node and binder, subst applied to the type e carries there
RECURSIVE TysApplied(_, _, _)
RECURSIVE BindingsTysApplied(_, _, _)
TysApplied(e, t, subst) ==
    /\ t.k = e.k
    /\ t.ty \in TypeApplyResults(e.ty, subst)
    /\ CASE e.k \in {"Lit", "Var"} -> TRUE
         [] e.k = "Binop" -> TysApplied(e.lhs, t.lhs, subst) /\ TysApplied(e.rhs, t.rhs, subst)
         [] e.k = "If" ->
                /\ TysApplied(e.test, t.test, subst)
                /\ TysApplied(e.then, t.then, subst)
                /\ TysApplied(e.els, t.els, subst)
         [] e.k = "Let" -> BindingsTysApplied(<<e.binding>>, <<t.binding>>, subst)
                           /\ TysApplied(e.body, t.body, subst)
         [] e.k = "Letrec" -> BindingsTysApplied(e.bindings, t.bindings, subst)
                              /\ TysApplied(e.body, t.body, subst)
         [] e.k = "Lambda" -> t.param.ty \in TypeApplyResults(e.param.ty, subst)
                              /\ TysApplied(e.body, t.body, subst)
         [] e.k = "App" -> TysApplied(e.func, t.func, subst) /\ TysApplied(e.arg, t.arg, subst)

BindingsTysApplied(bs, ts, subst) ==
    /\ Len(ts) = Len(bs)
    /\ \A i \in 1 .. Len(bs) :
          /\ ts[i].ty \in TypeApplyResults(bs[i].ty, subst)
          /\ TysApplied(bs[i].val, ts[i].val, subst)

\* C2: after infer_and_apply(e), every ty of every node and binder of the
\* result, the nodes inside the bound values of Let and Letrec bindings
\* included, is the unifier applied to the corresponding ty of e.
C2_AllTysApplied ==
    IsSome(typed) => TysApplied(Get(expr), Get(typed), Get(ret))

\* C3: for all substitutions s1 and s2 and every type t, s1.compose(s2)
\* applied to t is s1 applied to t and then s2 applied to the result, also
\* when s1 and s2 have a key in common.
C3_CompositionLaw ==
    (IsSome(law) /\ IsSome(Get(law).viaComposed) /\ IsSome(Get(law).viaBoth)) =>
        Get(law).viaComposed = Get(law).viaBoth

\* a run that has built its tree and has not ended can take a step
Progress == (status = "running" /\ phase # "build") => ENABLED Next

\* con equates a type variable with another type that contains it
OccursViolation(con) ==
    \E i \in {1, 2} :
        /\ IsVar(con[i])
        /\ con[3 - i] # con[i]
        /\ con[i][2] \in TypeVarsOf(con[3 - i])

\* C4: unify fails with the occurs check whenever the constraint unify1 is
\* given (the accumulated substitution already applied to it) equates a type
\* variable with another type containing it; a list holding such a constraint
\* is never unified; the constraints of \x -> x x end in the occurs check.
C4_OccursCheck ==
    /\ (IsSome(lastCon) /\ OccursViolation(Get(lastCon))) => status = "OccursCheck"
    /\ (\E i \in 1 .. Len(cons) : OccursViolation(cons[i])) => ~Returned
    /\ ast = Some(SelfApplication) =>
          /\ status \in {"running", "OccursCheck"}
          /\ ~Returned
          /\ Progress

C4_Witness ==
    /\ ast = Some(SelfApplication)
    /\ status = "OccursCheck"
    /\ IsSome(lastApplied)
    /\ IsFn(Get(lastCon)[2])

SamePrimitives(con) == con[1] \in {TInt, TBool, TFloat} /\ con[2] = con[1]

\* con pairs two distinct primitives, or a primitive with a function type
Mismatch(con) ==
    \/ IsPrim(con[1]) /\ IsPrim(con[2]) /\ con[1] # con[2]
    \/ IsPrim(con[1]) /\ IsFn(con[2])
    \/ IsFn(con[1]) /\ IsPrim(con[2])

GroundTypes == {TInt, TBool} \cup {TFn(a, b) : a \in {TInt, TBool}, b \in {TInt, TBool}}

\* q(ty): every variable of ty replaced at once by its image under q
RECURSIVE Instantiate(_, _)
Instantiate(ty, q) ==
    IF IsVar(ty) THEN (IF ty[2] \in DOMAIN q THEN q[ty[2]] ELSE ty)
    ELSE IF IsFn(ty)
         THEN TFnVec([i \in 1 .. Len(ty[2]) |-> Instantiate(ty[2][i], q)], Instantiate(ty[3], q))
    ELSE ty

VarsOfCons(cs) ==
    UNION {TypeVarsOf(cs[i][1]) \cup TypeVarsOf(cs[i][2]) : i \in 1 .. Len(cs)}

\* the ground substitutions that unify every constraint of cs
Unifiers(cs) ==
    {q \in [VarsOfCons(cs) -> GroundTypes] :
        \A i \in 1 .. Len(cs) : Instantiate(cs[i][1], q) = Instantiate(cs[i][2], q)}

\* the lists whose candidate unifiers are enumerated
SmallCons == phase \in {"unify", "apply", "done"} /\ Cardinality(VarsOfCons(cons)) <= MaxVar + 1

\* C6: a substitution s returned by unify is most general: every unifier q of
\* the list satisfies q(s(v)) = q(v) for every variable v (hence for every
\* type); and unify fails only on lists that have no unifier.
C6_MostGeneral ==
    /\ (SmallCons /\ Returned) =>
          \A q \in Unifiers(cons) : \A v \in VarsOfCons(cons) :
              \A sv \in TypeApplyResults(TVar(v), Get(ret)) : Instantiate(sv, q) = q[v]
    /\ (SmallCons /\ status \in {"TypeMismatch", "OccursCheck"}) => Unifiers(cons) = {}

C6_Witness ==
    /\ SmallCons /\ Returned
    /\ Cardinality(Unifiers(cons)) >= 2
    /\ \E k \in DOMAIN Get(ret) : IsFn(Get(ret)[k]) /\ TypeVarsOf(Get(ret)[k]) # {}

\* no key of subst occurs in a range type of subst
Idempotent(subst) == \A k \in DOMAIN subst : TypeVarsOf(subst[k]) \cap DOMAIN subst = {}

\* the types a substitution is tried on: its keys, and function types over them
Probe(subst) ==
    {TVar(v) : v \in DOMAIN subst} \cup {TFn(TVar(v), TVar(w)) : v \in DOMAIN subst, w \in DOMAIN subst}

\* C8: in every substitution returned by a call of unify (the results of
\* compose included) and by unify1, no key occurs in a range type; applying
\* such a substitution twice gives what applying it once gives.
C8_Idempotent ==
    /\ \A i \in 1 .. Len(stack) : Idempotent(stack[i].subst)
    /\ IsSome(ret) =>
          /\ Idempotent(Get(ret))
          /\ \A ty \in Probe(Get(ret)) : \A once \in TypeApplyResults(ty, Get(ret)) :
                \A twice \in TypeApplyResults(once, Get(ret)) : twice = once

C8_Witness ==
    /\ stack # <<>> /\ IsSome(ret) /\ Top.pc = "wait2"
    /\ Cardinality(DOMAIN Get(ret)) >= 2
    /\ \E k \in DOMAIN Get(ret) : TypeVarsOf(Get(ret)[k]) # {}

\* C9: every substitution unify applies or returns gives one result on every
\* type whatever the iteration order of the map, so every step that applies a
\* substitution (to the tail, in compose, to the tree) has a single outcome.
C9_Deterministic ==
    /\ \A o \in {lastApplied, ret} :
          IsSome(o) => \A ty \in Probe(Get(o)) : Cardinality(TypeApplyResults(ty, Get(o))) = 1
    /\ (Running /\ Top.pc = "tail") => Cardinality(apply_cons(Top.subst, Tail(Top.cons))) = 1
    /\ (Running /\ Top.pc = "wait2" /\ IsSome(ret)) => Cardinality(compose(Top.subst, Get(ret))) = 1
    /\ (phase = "apply" /\ status = "running") =>
          /\ Cardinality(TypeApplyResults(Get(expr).ty, Get(ret))) = 1
          /\ (IsSome(ast) => Cardinality(ExprApply(Get(expr), Get(ret))) = 1)

C9_Witness ==
    /\ IsSome(typed) /\ IsSome(lastApplied)
    /\ Cardinality(DOMAIN Get(lastApplied)) >= 3
    /\ \E k \in DOMAIN Get(lastApplied) : IsFn(Get(lastApplied)[k])

\* every use of a let-bound or letrec-bound name has, under subst, the type of
\* its binder; env maps the names bound by let and letrec to the binder's ty
RECURSIVE MonoUses(_, _, _)
MonoUses(e, env, subst) ==
    CASE e.k = "Lit" -> TRUE
      [] e.k = "Var" ->
            e.name \in DOMAIN env =>
                TypeApplyResults(e.ty, subst) = TypeApplyResults(env[e.name], subst)
      [] e.k = "Binop" -> MonoUses(e.lhs, env, subst) /\ MonoUses(e.rhs, env, subst)
      [] e.k = "If" ->
            /\ MonoUses(e.test, env, subst)
            /\ MonoUses(e.then, env, subst)
            /\ MonoUses(e.els, env, subst)
      [] e.k = "Let" ->
            /\ MonoUses(e.binding.val, env, subst)
            /\ MonoUses(e.body, (e.binding.name :> e.binding.ty) @@ env, subst)
      [] e.k = "Letrec" ->
            LET ext == LetrecEnv(e.bindings, env)
            IN /\ \A i \in 1 .. Len(e.bindings) : MonoUses(e.bindings[i].val, ext, subst)
               /\ MonoUses(e.body, ext, subst)
      [] e.k = "Lambda" ->
            MonoUses(e.body, [n \in DOMAIN env \ {e.param.name} |-> env[n]], subst)
      [] e.k = "App" -> MonoUses(e.func, env, subst) /\ MonoUses(e.arg, env, subst)

\* C7: under the unifier every use of a let-bound variable has the one type
\* of its binder; the program that applies a let-bound id to 0 and to false
\* can only end in a unification mismatch between Int and Bool.
C7_MonomorphicLet ==
    /\ (IsSome(expr) /\ Returned) => MonoUses(Get(expr), <<>>, Get(ret))
    /\ ast = Some(LetPolymorphism) =>
          /\ status \in {"running", "TypeMismatch"}
          /\ ~Returned
          /\ Progress
          /\ (status = "TypeMismatch" =>
                Get(lastCon) \in {<<TInt, TBool>>, <<TBool, TInt>>})

C7_Witness ==
    /\ ast = Some(LetPolymorphism)
    /\ status = "TypeMismatch"
    /\ Get(lastCon) \in {<<TInt, TBool>>, <<TBool, TInt>>}

\* the names of the default environment
DefaultNames == {"add", "sub", "mul", "is_zero", "not"}

\* every Var occurrence of the surface expression a is in scope
RECURSIVE InScope(_, _)
InScope(a, scope) ==
    CASE a.k = "Lit" -> TRUE
      [] a.k = "Var" -> a.name \in scope
      [] a.k = "Binop" -> InScope(a.lhs, scope) /\ InScope(a.rhs, scope)
      [] a.k = "If" -> InScope(a.test, scope) /\ InScope(a.then, scope) /\ InScope(a.els, scope)
      [] a.k = "Let" ->
            /\ \A i \in 1 .. Len(a.bindings) :
                  InScope(a.bindings[i].val, scope \cup {a.bindings[j].name : j \in 1 .. (i - 1)})
            /\ InScope(a.body, scope \cup {a.bindings[j].name : j \in 1 .. Len(a.bindings)})
      [] a.k = "Letrec" ->
            LET all == scope \cup {a.bindings[j].name : j \in 1 .. Len(a.bindings)}
            IN /\ \A i \in 1 .. Len(a.bindings) : InScope(a.bindings[i].val, all)
               /\ InScope(a.body, all)
      [] a.k = "Lambda" ->
            InScope(a.body, scope \cup {a.params[j].name : j \in 1 .. Len(a.params)})
      [] a.k = "App" -> InScope(a.func, scope) /\ InScope(a.arg, scope)

\* C10: collect fails with the unbound-variable error exactly when some Var
\* occurrence is out of scope: the scope is the default environment, the
\* enclosing lambda parameters, the names of a let in its body (and, in an
\* n-ary let, the earlier names in a later bound value), and the names of a
\* letrec in all its bound values and its body.
C10_Scoping ==
    (IsSome(ast) /\ ~HasBinop(Get(ast))) =>
        /\ status = "UnboundVariable" => ~InScope(Get(ast), DefaultNames)
        /\ phase \in {"unify", "apply", "done"} => InScope(Get(ast), DefaultNames)
        /\ Progress

C10_Witness ==
    /\ IsSome(ast) /\ status = "UnboundVariable"
    /\ Get(ast).k = "Let" /\ Len(Get(ast).bindings) = 2
    /\ Get(ast).bindings[1].val = AVar(Get(ast).bindings[2].name)
    /\ Get(ast).bindings[2].val = AVar(Get(ast).bindings[1].name)
    /\ Get(ast).bindings[1].name # Get(ast).bindings[2].name

\* the annotated binders of e: the annotation, the type the annotation is to
\* be equated with (the bound value's, the parameter's), and the binder's ty
RECURSIVE AnnBinders(_)
AnnBinders(e) ==
    LET OfBinding(b) ==
            (IF IsSome(b.ann) THEN {[ann |-> Get(b.ann), target |-> b.val.ty, ty |-> b.ty]} ELSE {})
            \cup AnnBinders(b.val)
    IN CASE e.k \in {"Lit", "Var"} -> {}
         [] e.k = "Binop" -> AnnBinders(e.lhs) \cup AnnBinders(e.rhs)
         [] e.k = "If" -> AnnBinders(e.test) \cup AnnBinders(e.then) \cup AnnBinders(e.els)
         [] e.k = "Let" -> OfBinding(e.binding) \cup AnnBinders(e.body)
         [] e.k = "Letrec" ->
                UNION {OfBinding(e.bindings[i]) : i \in 1 .. Len(e.bindings)} \cup AnnBinders(e.body)
         [] e.k = "Lambda" ->
                (IF IsSome(e.param.ann)
                 THEN {[ann |-> Get(e.param.ann), target |-> e.param.ty, ty |-> e.param.ty]}
                 ELSE {})
                \cup AnnBinders(e.body)
         [] e.k = "App" -> AnnBinders(e.func) \cup AnnBinders(e.arg)

\* C11: for every annotated binder (let binding, letrec binding, lambda
\* parameter) collect emits the constraint between the annotation and the
\* bound value's or parameter's type, the binder keeps its own type variable,
\* and whenever unification succeeds the binder has the annotated type.
C11_Annotations ==
    (IsSome(expr) /\ phase \in {"unify", "apply", "done"}) =>
        \A b \in AnnBinders(Get(expr)) :
            /\ \E i \in 1 .. Len(cons) : cons[i] = <<b.ann, b.target>>
            /\ IsVar(b.ty) /\ b.ty # b.ann
            /\ Returned => TypeApplyResults(b.ty, Get(ret)) = {b.ann}

\* the ty of every node and of every binder of e, in the order of the tree
RECURSIVE TyList(_)
RECURSIVE BindingsTyList(_)
TyList(e) ==
    <<e.ty>> \o
    CASE e.k \in {"Lit", "Var"} -> <<>>
      [] e.k = "Binop" -> TyList(e.lhs) \o TyList(e.rhs)
      [] e.k = "If" -> TyList(e.test) \o TyList(e.then) \o TyList(e.els)
      [] e.k = "Let" -> BindingsTyList(<<e.binding>>) \o TyList(e.body)
      [] e.k = "Letrec" -> BindingsTyList(e.bindings) \o TyList(e.body)
      [] e.k = "Lambda" -> <<e.param.ty>> \o TyList(e.body)
      [] e.k = "App" -> TyList(e.func) \o TyList(e.arg)

BindingsTyList(bs) ==
    IF bs = <<>> THEN <<>>
    ELSE <<Head(bs).ty>> \o TyList(Head(bs).val) \o BindingsTyList(Tail(bs))

\* C12: in the tree from_ast builds, the ty of every node and of every binder
\* is a type variable, no two of them are equal, and their numbers are
\* exactly 0 .. n-1 for n the number of nodes plus binders.
C12_FreshTypeVars ==
    (IsSome(ast) /\ IsSome(expr)) =>
        LET tys == TyList(Get(expr))
        IN /\ \A i \in 1 .. Len(tys) : IsVar(tys[i])
           /\ \A i \in 1 .. Len(tys) : \A j \in 1 .. Len(tys) : tys[i] = tys[j] => i = j
           /\ {tys[i][2] : i \in 1 .. Len(tys)} = 0 .. (Len(tys) - 1)

C12_Witness ==
    /\ IsSome(ast) /\ IsSome(expr) /\ phase = "collect"
    /\ Get(expr).k = "Letrec"
    /\ Len(TyList(Get(expr))) >= 10

----------------------------------------------------------------------------
(* Properties of normalize_expr *)

Normalized == IsSome(pass) /\ IsSome(Get(pass).once)

\* the atoms of the output language: ae := \x -> e | x | n
IsAtomic(e) == e.k \in {"Lit", "Var", "Lambda"}

\* the operands of every App and the test of every If of e are atomic
RECURSIVE AtomicOperands(_)
AtomicOperands(e) ==
    CASE e.k \in {"Lit", "Var"} -> TRUE
      [] e.k = "If" ->
            /\ IsAtomic(e.test)
            /\ AtomicOperands(e.test) /\ AtomicOperands(e.then) /\ AtomicOperands(e.els)
      [] e.k = "Let" -> AtomicOperands(e.binding.val) /\ AtomicOperands(e.body)
      [] e.k = "Letrec" ->
            /\ \A i \in 1 .. Len(e.bindings) : AtomicOperands(e.bindings[i].val)
            /\ AtomicOperands(e.body)
      [] e.k = "Lambda" -> AtomicOperands(e.body)
      [] e.k = "App" ->
            /\ IsAtomic(e.func) /\ IsAtomic(e.arg)
            /\ AtomicOperands(e.func) /\ AtomicOperands(e.arg)

\* the number of Let nodes of e
RECURSIVE LetCount(_)
LetCount(e) ==
    CASE e.k \in {"Lit", "Var"} -> 0
      [] e.k = "If" -> LetCount(e.test) + LetCount(e.then) + LetCount(e.els)
      [] e.k = "Let" -> 1 + LetCount(e.binding.val) + LetCount(e.body)
      [] e.k = "Letrec" -> 0
      [] e.k = "Lambda" -> LetCount(e.body)
      [] e.k = "App" -> LetCount(e.func) + LetCount(e.arg)

\* C13: in the output of normalize_expr on a letrec-free input, the function
\* and the argument of every App and the test of every If are atomic (a
\* literal, a variable or a lambda), at every depth: inside lambda bodies,
\* let values and if branches too.  The Expr of anf.rs has no Binop variant.
C13_AnfAtomic ==
    Normalized => AtomicOperands(Get(Get(pass).once))

\* an application whose function and argument are applications
C13_Witness ==
    /\ Normalized
    /\ Get(pass).input.k = "App"
    /\ Get(pass).input.func.k = "App"
    /\ Get(pass).input.arg.k = "App"
    /\ Get(Get(pass).once).k = "Let"
    /\ LetCount(Get(Get(pass).once)) >= 2

\* C14: normalizing the output of normalize_expr again gives the same tree
\* (hence an alpha-equivalent one), and the second normalization introduces
\* no new let binding.
C14_AnfIdempotent ==
    (Normalized /\ IsSome(Get(pass).twice)) =>
        /\ Get(Get(pass).twice) = Get(Get(pass).once)
        /\ LetCount(Get(Get(pass).twice)) = LetCount(Get(Get(pass).once))

\* the first normalization introduced two let bindings, the second was run
C14_Witness ==
    /\ Normalized /\ IsSome(Get(pass).twice)
    /\ LetCount(Get(Get(pass).once)) >= LetCount(Get(pass).input) + 2

\* C19: for every letrec-free expression e, normalize_expr(e).is_anf() is
\* true, with is_anf the predicate of anf.rs (the test and both branches of
\* an If atomic, the operands of an App atomic, the value and the body of a
\* Let in e-form, a Lambda body in e-form).
C19_OutputIsAnf ==
    (Normalized /\ IsSome(Get(pass).checked)) => Get(Get(pass).checked)

\* a name made by GENSYM: a tree of n nodes draws fewer than n of them
IsGensym(name) == \E g \in 0 .. 31 : name = Gensym(g)

\* the values of the Lets of e that bind a name made by GENSYM
RECURSIVE GensymVals(_)
GensymVals(e) ==
    CASE e.k \in {"Lit", "Var"} -> {}
      [] e.k = "If" -> GensymVals(e.test) \cup GensymVals(e.then) \cup GensymVals(e.els)
      [] e.k = "Let" ->
            (IF IsGensym(e.binding.name) THEN {e.binding.val} ELSE {})
            \cup GensymVals(e.binding.val) \cup GensymVals(e.body)
      [] e.k = "Letrec" -> {}
      [] e.k = "Lambda" -> GensymVals(e.body)
      [] e.k = "App" -> GensymVals(e.func) \cup GensymVals(e.arg)

\* C20: normalize_name binds a subterm to a fresh variable only when the
\* normalized subterm is not atomic, literals, variables and lambdas being
\* atomic: no Let of a fresh variable in the output has an atomic value, and
\* a lambda that is the function of the input application is still the
\* function of the application in the output.
C20_NameOnlyNonAtomic ==
    Normalized =>
        /\ \A v \in GensymVals(Get(Get(pass).once)) : ~IsAtomic(v)
        /\ (Get(pass).input.k = "App" /\ Get(pass).input.func.k = "Lambda"
                /\ Get(pass).input.arg.k \in {"Lit", "Var"})
            => (Get(Get(pass).once).k = "App" /\ Get(Get(pass).once).func.k = "Lambda")

----------------------------------------------------------------------------
(* Properties of rename *)

Renamed == IsSome(pass) /\ Get(pass).kind = "rename" /\ IsSome(Get(pass).renamed)

\* the names of the binders of e (let bindings, letrec bindings, lambda
\* parameters), in the order of the tree
RECURSIVE BinderNames(_)
RECURSIVE BindingsBinderNames(_)
BinderNames(e) ==
    CASE e.k \in {"Lit", "Var"} -> <<>>
      [] e.k = "If" -> BinderNames(e.test) \o BinderNames(e.then) \o BinderNames(e.els)
      [] e.k = "Let" -> <<e.binding.name>> \o BinderNames(e.binding.val) \o BinderNames(e.body)
      [] e.k = "Letrec" -> BindingsBinderNames(e.bindings) \o BinderNames(e.body)
      [] e.k = "Lambda" -> <<e.param.name>> \o BinderNames(e.body)
      [] e.k = "App" -> BinderNames(e.func) \o BinderNames(e.arg)

BindingsBinderNames(bs) ==
    IF bs = <<>> THEN <<>>
    ELSE <<Head(bs).name>> \o BinderNames(Head(bs).val) \o BindingsBinderNames(Tail(bs))

\* C15: in the output of rename every binder (let binding, letrec binding,
\* lambda parameter) has a name different from every other binder of the
\* tree, and the output has as many binders as the input.
C15_UniqueBinders ==
    Renamed =>
        LET ns == BinderNames(Get(Get(pass).renamed))
        IN /\ Len(ns) = Len(BinderNames(Get(pass).input))
           /\ \A i \in 1 .. Len(ns) : \A j \in 1 .. Len(ns) : ns[i] = ns[j] => i = j

\* a letrec group that binds one name twice and shadows it again in a value
C15_Witness ==
    /\ Renamed
    /\ Get(pass).input.k = "Letrec"
    /\ Len(Get(pass).input.bindings) = 2
    /\ Get(pass).input.bindings[1].name = Get(pass).input.bindings[2].name
    /\ Get(pass).input.bindings[1].val.k = "Lambda"
    /\ Get(pass).input.bindings[1].val.param.name = Get(pass).input.bindings[1].name

----------------------------------------------------------------------------
(* Properties of convert *)

Converted == IsSome(pass) /\ Get(pass).kind = "closure" /\ IsSome(Get(pass).converted)

\* the MkClosure nodes of c, at every depth
RECURSIVE Closures(_)
Closures(c) ==
    CASE c.k \in {"Lit", "Var", "EnvRef"} -> {}
      [] c.k = "If" -> Closures(c.test) \cup Closures(c.then) \cup Closures(c.els)
      [] c.k = "Let" -> Closures(c.binding.val) \cup Closures(c.body)
      [] c.k = "Letrec" ->
            UNION {Closures(c.bindings[i].val) : i \in 1 .. Len(c.bindings)} \cup Closures(c.body)
      [] c.k = "MkClosure" -> {c} \cup Closures(c.body)
      [] c.k = "App" -> Closures(c.func) \cup Closures(c.arg)

\* the names of the nodes of kind kd (Var or EnvRef) of c; inner: nested
\* closure bodies included
RECURSIVE NamesOf(_, _, _)
NamesOf(c, kd, inner) ==
    CASE c.k \in {"Lit", "Var", "EnvRef"} -> IF c.k = kd THEN {c.name} ELSE {}
      [] c.k = "If" ->
            NamesOf(c.test, kd, inner) \cup NamesOf(c.then, kd, inner) \cup NamesOf(c.els, kd, inner)
      [] c.k = "Let" -> NamesOf(c.binding.val, kd, inner) \cup NamesOf(c.body, kd, inner)
      [] c.k = "Letrec" ->
            UNION {NamesOf(c.bindings[i].val, kd, inner) : i \in 1 .. Len(c.bindings)}
            \cup NamesOf(c.body, kd, inner)
      [] c.k = "MkClosure" -> IF inner THEN NamesOf(c.body, kd, inner) ELSE {}
      [] c.k = "App" -> NamesOf(c.func, kd, inner) \cup NamesOf(c.arg, kd, inner)

\* the names bound inside c by a let, a letrec or the parameter of a closure
RECURSIVE BoundIn(_)
BoundIn(c) ==
    CASE c.k \in {"Lit", "Var", "EnvRef"} -> {}
      [] c.k = "If" -> BoundIn(c.test) \cup BoundIn(c.then) \cup BoundIn(c.els)
      [] c.k = "Let" -> {c.binding.name} \cup BoundIn(c.binding.val) \cup BoundIn(c.body)
      [] c.k = "Letrec" ->
            {c.bindings[i].name : i \in 1 .. Len(c.bindings)}
            \cup UNION {BoundIn(c.bindings[i].val) : i \in 1 .. Len(c.bindings)}
            \cup BoundIn(c.body)
      [] c.k = "MkClosure" -> {c.param.name} \cup BoundIn(c.body)
      [] c.k = "App" -> BoundIn(c.func) \cup BoundIn(c.arg)

\* C16: for an ANF-normalized, alpha-renamed input, inside the body of every
\* MkClosure that convert produces every Var names the parameter or a
\* variable bound inside that body, so none names a variable bound outside
\* the closure; every EnvRef of the body that is not inside a nested closure
\* has a key of the closure's free_vars as its name, and no key of free_vars
\* is bound inside the closure.
C16_ClosureSound ==
    Converted =>
        \A m \in Closures(Get(Get(pass).converted)) :
            /\ NamesOf(m.body, "Var", TRUE) \subseteq {m.param.name} \cup BoundIn(m.body)
            /\ NamesOf(m.body, "EnvRef", FALSE) \subseteq Keys(m.free_vars)
            /\ Keys(m.free_vars) \cap ({m.param.name} \cup BoundIn(m.body)) = {}

\* a closure nested in a closure, the inner one reading the outer parameter
\* from its environment
C16_Witness ==
    /\ Converted
    /\ \E m \in Closures(Get(Get(pass).converted)) :
          /\ m.body.k = "MkClosure"
          /\ m.param.name \in Keys(m.body.free_vars)
          /\ m.body.body = CEnvRef(m.body.body.ty, m.param.name)

----------------------------------------------------------------------------
(* Properties of compile_toplevel *)

Codegen == IsSome(pass) /\ Get(pass).kind = "codegen"

\* the call of compile_toplevel has ended, by returning or by a panic
CompileEnded == Codegen /\ IsSome(Get(pass).module)

\* the call of toplevel has returned
CallEnded == Codegen /\ IsSome(Get(pass).exec) /\ Get(Get(pass).exec).frames = <<>>

\* C17: for every source that type-checks against the default environment,
\* code generation completes, which includes that no type variable had to be
\* lowered to an IR type, and the emitted module is well formed: every basic
\* block of every function ends with exactly one terminator and has no
\* instruction after it, and every value used in a function is defined in
\* that function.
C17_ModuleWellFormed ==
    (CompileEnded /\ status = "ok") =>
        /\ Get(Get(pass).module).err = None
        /\ verify(Get(Get(pass).module))

\* The value of a source expression: a literal is its value, a variable the
\* value bound to it, a lambda a closure over the bindings in scope where it
\* stands, an application the body of the closure with the parameter bound
\* to the argument.
IntS(n) == [k |-> "int", v |-> n]
BoolS(b) == [k |-> "bool", v |-> b]
ClosureS(param, body, env) == [k |-> "closure", param |-> param, body |-> body, env |-> env]
NoValue == [k |-> "none"]

RECURSIVE Eval(_, _)
Eval(e, env) ==
    CASE e.k = "Lit" ->
            IF e.val[1] = "Bool" THEN BoolS(e.val[2])
            ELSE IF e.val[1] = "Int" THEN IntS(e.val[2]) ELSE NoValue
      [] e.k = "Var" -> IF e.name \in DOMAIN env THEN env[e.name] ELSE NoValue
      [] e.k = "If" ->
            LET t == Eval(e.test, env)
            IN IF t.k # "bool" THEN NoValue
               ELSE IF t.v THEN Eval(e.then, env) ELSE Eval(e.els, env)
      [] e.k = "Let" -> Eval(e.body, (e.binding.name :> Eval(e.binding.val, env)) @@ env)
      [] e.k = "Lambda" -> ClosureS(e.param.name, e.body, env)
      [] e.k = "App" ->
            LET f == Eval(e.func, env)
            IN IF f.k # "closure" THEN NoValue
               ELSE Eval(f.body, (f.param :> Eval(e.arg, env)) @@ f.env)
      [] OTHER -> NoValue

\* the value toplevel returned is the value v of the source
Returns(v) ==
    /\ CallEnded
    /\ IsSome(Get(Get(pass).exec).value)
    /\ LET r == Get(Get(Get(pass).exec).value)
       IN /\ r.k = "int"
          /\ \/ v.k = "int" /\ r.v = v.v
             \/ v.k = "bool" /\ r.v = (IF v.v THEN 1 ELSE 0)

\* C18: calling a closure runs the code stored in the closure with the
\* environment stored in that closure and the argument: a program of type
\* Int or Bool returns the value of its source, where the parameter reads
\* the argument and a captured variable reads the value it had where the
\* closure was constructed; `let x = 5, f = \ignored -> x in f 100` compiles,
\* verifies and yields 5.
C18_ClosureCall ==
    /\ (CallEnded /\ Get(typed).ty \in {TInt, TBool}) => Returns(Eval(Get(typed), <<>>))
    /\ (CompileEnded /\ ast = Some(CapturedLet)) =>
          /\ Get(Get(pass).module).err = None
          /\ Get(pass).verified # Some(FALSE)
          /\ CallEnded => Returns(IntS(5))

----------------------------------------------------------------------------
(* Properties of normalize: the branches of an If *)

\* the If nodes of a tree
RECURSIVE Ifs(_)
Ifs(e) ==
    CASE e.k \in {"Lit", "Var"} -> {}
      [] e.k = "If" -> {e} \cup Ifs(e.test) \cup Ifs(e.then) \cup Ifs(e.els)
      [] e.k = "Let" -> Ifs(e.binding.val) \cup Ifs(e.body)
      [] e.k = "Letrec" ->
            UNION {Ifs(e.bindings[i].val) : i \in 1 .. Len(e.bindings)} \cup Ifs(e.body)
      [] e.k = "Lambda" -> Ifs(e.body)
      [] e.k = "App" -> Ifs(e.func) \cup Ifs(e.arg)

\* the ty fields of the nodes of a tree; from_ast gives every node of its
\* output a type variable of its own, so they tell which nodes a tree holds
RECURSIVE NodeTys(_)
NodeTys(e) ==
    {e.ty} \cup
    CASE e.k \in {"Lit", "Var"} -> {}
      [] e.k = "If" -> NodeTys(e.test) \cup NodeTys(e.then) \cup NodeTys(e.els)
      [] e.k = "Let" -> NodeTys(e.binding.val) \cup NodeTys(e.body)
      [] e.k = "Letrec" ->
            UNION {NodeTys(e.bindings[i].val) : i \in 1 .. Len(e.bindings)}
            \cup NodeTys(e.body)
      [] e.k = "Lambda" -> NodeTys(e.body)
      [] e.k = "App" -> NodeTys(e.func) \cup NodeTys(e.arg)

\* the counters GENSYM can hold when a subtree of an input is normalized
GensymRange == 0 .. 15

\* branch is what normalize_expr_inner makes of the input's branch alone
BranchOnItsOwn(out, in) ==
    /\ NodeTys(out) = NodeTys(in)
    /\ \E g \in GensymRange : out = normalize_expr_inner(in, g).expr

\* C21: normalize normalizes each branch of an If on its own, with the
\* identity continuation: every If of the output is an If of the input
\* whose then and else branch are normalize_expr_inner of the input's
\* branches, holding exactly the nodes of the input's branch, so a Let
\* introduced for a computation of a branch is inside the branch and nothing
\* of a branch is moved in front of the If; the nodes of the output's test
\* are nodes of the input's test.
C21_BranchesInPlace ==
    Normalized =>
        LET in == Ifs(Get(pass).input)
            out == Ifs(Get(Get(pass).once))
        IN /\ {o.ty : o \in out} = {i.ty : i \in in}
           /\ \A o \in out : \E i \in in :
                 /\ i.ty = o.ty
                 /\ BranchOnItsOwn(o.then, i.then)
                 /\ BranchOnItsOwn(o.els, i.els)
                 /\ NodeTys(o.test) \subseteq NodeTys(i.test)

\* an If whose then branch is an application of an application: the Let that
\* names the inner application is the then branch of the output's If
C21_Witness ==
    /\ Normalized
    /\ Get(pass).input.k = "If"
    /\ Get(pass).input.then.k = "App"
    /\ Get(pass).input.then.func.k = "App"
    /\ Get(Get(pass).once).k = "If"
    /\ Get(Get(pass).once).then.k = "Let"
    /\ IsGensym(Get(Get(pass).once).then.binding.name)

----------------------------------------------------------------------------
(* Properties of rename: the binding structure *)

\* the scope of the values and the body of a Letrec: every name of the group
\* stands for the name its binding has in the output, a later binding of the
\* same name before an earlier one
RECURSIVE GroupScope(_, _, _)
GroupScope(inBs, outBs, scope) ==
    IF inBs = <<>> THEN scope
    ELSE GroupScope(Tail(inBs), Tail(outBs), (Head(inBs).name :> Head(outBs).name) @@ scope)

\* out is in with every Var occurrence that a binder of in binds named as
\* that binder is named in out, and every other Var occurrence named as in
\* in; scope gives, for the names bound where the tree stands, the name the
\* innermost binder of that name has in out
RECURSIVE SameBinding(_, _, _)
RECURSIVE SameBindingVals(_, _, _)
SameBinding(in, out, scope) ==
    /\ out.k = in.k
    /\ out.ty = in.ty
    /\ CASE in.k = "Lit" -> out = in
         [] in.k = "Var" ->
               out.name = (IF in.name \in DOMAIN scope THEN scope[in.name] ELSE in.name)
         [] in.k = "If" ->
               /\ SameBinding(in.test, out.test, scope)
               /\ SameBinding(in.then, out.then, scope)
               /\ SameBinding(in.els, out.els, scope)
         [] in.k = "Let" ->
               /\ SameBinding(in.binding.val, out.binding.val, scope)
               /\ SameBinding(in.body, out.body,
                              (in.binding.name :> out.binding.name) @@ scope)
         [] in.k = "Letrec" ->
               /\ Len(out.bindings) = Len(in.bindings)
               /\ LET inner == GroupScope(in.bindings, out.bindings, scope)
                  IN /\ SameBindingVals(in.bindings, out.bindings, inner)
                     /\ SameBinding(in.body, out.body, inner)
         [] in.k = "Lambda" ->
               SameBinding(in.body, out.body, (in.param.name :> out.param.name) @@ scope)
         [] in.k = "App" ->
               /\ SameBinding(in.func, out.func, scope)
               /\ SameBinding(in.arg, out.arg, scope)

SameBindingVals(inBs, outBs, scope) ==
    \A i \in 1 .. Len(inBs) : SameBinding(inBs[i].val, outBs[i].val, scope)

\* the names of the Var occurrences of a tree
RECURSIVE VarNames(_)
VarNames(e) ==
    CASE e.k = "Lit" -> {}
      [] e.k = "Var" -> {e.name}
      [] e.k = "If" -> VarNames(e.test) \cup VarNames(e.then) \cup VarNames(e.els)
      [] e.k = "Let" -> VarNames(e.binding.val) \cup VarNames(e.body)
      [] e.k = "Letrec" ->
            UNION {VarNames(e.bindings[i].val) : i \in 1 .. Len(e.bindings)}
            \cup VarNames(e.body)
      [] e.k = "Lambda" -> VarNames(e.body)
      [] e.k = "App" -> VarNames(e.func) \cup VarNames(e.arg)

\* the set of the names of the binders of a tree
BinderSet(e) == {BinderNames(e)[i] : i \in 1 .. Len(BinderNames(e))}

\* C22: rename preserves the binding structure: every Var occurrence that a
\* binder of the input binds (the innermost enclosing binder of its name;
\* the value of a Let is outside the scope of the Let, the values and the
\* body of a Letrec are inside) has in the output the fresh name of that
\* binder, which is the name of no variable or binder of the input, and
\* every free Var occurrence keeps its name.
C22_BindingStructure ==
    Renamed =>
        /\ SameBinding(Get(pass).input, Get(Get(pass).renamed), <<>>)
        /\ BinderSet(Get(Get(pass).renamed))
              \cap (VarNames(Get(pass).input) \cup BinderSet(Get(pass).input)) = {}

\* `let x = x in x`: the x of the value is free and keeps its name, the x of
\* the body has the new name of the binding
C22_Witness ==
    /\ Renamed
    /\ Get(pass).input.k = "Let"
    /\ Get(pass).input.binding.val.k = "Var"
    /\ Get(pass).input.binding.val.name = Get(pass).input.binding.name
    /\ Get(pass).input.body.k = "Var"
    /\ Get(pass).input.body.name = Get(pass).input.binding.name
    /\ Get(Get(pass).renamed).binding.val.name = Get(pass).input.binding.name
    /\ Get(Get(pass).renamed).body.name = Get(Get(pass).renamed).binding.name
    /\ Get(Get(pass).renamed).body.name # Get(pass).input.binding.name

\* a letrec whose value names the binding itself
C22_WitnessLetrec ==
    /\ Renamed
    /\ Get(pass).input.k = "Letrec"
    /\ \E i \in 1 .. Len(Get(pass).input.bindings) :
          LET b == Get(pass).input.bindings[i]
          IN b.val.k = "Lambda" /\ b.name \in VarNames(b.val.body)

----------------------------------------------------------------------------
(* Properties of free_vars *)

\* the free variables of a tree: let is not recursive, so the scope of the
\* name a Let binds is the body only
RECURSIVE FreeNames(_)
FreeNames(e) ==
    CASE e.k = "Lit" -> {}
      [] e.k = "Var" -> {e.name}
      [] e.k = "If" -> FreeNames(e.test) \cup FreeNames(e.then) \cup FreeNames(e.els)
      [] e.k = "Let" -> FreeNames(e.binding.val) \cup (FreeNames(e.body) \ {e.binding.name})
      [] e.k = "Letrec" ->
            (UNION {FreeNames(e.bindings[i].val) : i \in 1 .. Len(e.bindings)}
               \cup FreeNames(e.body))
            \ {e.bindings[i].name : i \in 1 .. Len(e.bindings)}
      [] e.k = "Lambda" -> FreeNames(e.body) \ {e.param.name}
      [] e.k = "App" -> FreeNames(e.func) \cup FreeNames(e.arg)

FreeVarsDone == IsSome(pass) /\ Get(pass).kind = "closure" /\ IsSome(Get(pass).fv)

\* C23: free_vars of a Let is fv(binding.val) united with fv(body) minus
\* binding.name, so an occurrence of the bound name inside binding.val is
\* reported as free: the keys free_vars returns are the free variables of the
\* tree; and the parameter of a lambda is never among its free variables.
C23_FreeVarsOfLet ==
    FreeVarsDone =>
        /\ Keys(Get(Get(pass).fv)) = FreeNames(Get(pass).input)
        /\ Get(pass).input.k = "Lambda" =>
              Get(pass).input.param.name \notin Keys(Get(Get(pass).fv))

----------------------------------------------------------------------------
(* Properties of substitute *)

\* the Lambda nodes of a tree
RECURSIVE Lambdas(_)
Lambdas(e) ==
    CASE e.k \in {"Lit", "Var"} -> {}
      [] e.k = "If" -> Lambdas(e.test) \cup Lambdas(e.then) \cup Lambdas(e.els)
      [] e.k = "Let" -> Lambdas(e.binding.val) \cup Lambdas(e.body)
      [] e.k = "Letrec" ->
            UNION {Lambdas(e.bindings[i].val) : i \in 1 .. Len(e.bindings)}
            \cup Lambdas(e.body)
      [] e.k = "Lambda" -> {e} \cup Lambdas(e.body)
      [] e.k = "App" -> Lambdas(e.func) \cup Lambdas(e.arg)

\* every MkClosure of out is what convert makes of the lambda of in it
\* stands for (from_ast gives every lambda a ty of its own)
ClosuresAsConverted(in, out) ==
    \A n \in Closures(out) : \E lam \in Lambdas(in) : lam.ty = n.ty /\ n = convert(lam)

\* C24: when convert rewrites the body of a lambda, the substitution of
\* EnvRefs for that lambda's free variables is not applied inside the body of
\* a nested MkClosure: every MkClosure of the output, nested ones included,
\* is exactly what its own conversion produced.
C24_NestedBodiesKept ==
    (IsSome(pass) /\ Get(pass).kind = "closure" /\ IsSome(Get(pass).cexpr)) =>
        ClosuresAsConverted(Get(pass).input, Get(Get(pass).cexpr))

----------------------------------------------------------------------------
(* Properties of compile_lambda *)

\* compile_function is about to return to compile_lambda
LambdaReturns ==
    /\ Codegen /\ IsSome(Get(pass).compiler)
    /\ ~Compiled(Get(Get(pass).compiler))
    /\ LET C == Get(Get(pass).compiler) IN C.tasks[Len(C.tasks)].k = "function_body"

\* the block the closure was built in: where the builder stands when
\* compile_lambda returns
BuiltIn(p) == Get(Get(p).compiler).M.cur

\* C25: after compile_lambda has emitted the nested function, the builder is
\* at the end of the basic block that was current before the call, and the
\* instructions that build the closure are appended to that block, also when
\* the MkClosure is compiled in the then or else block of an If.
C25_BuilderRestored ==
    [][(LambdaReturns /\ Get(Get(pass').compiler).M.err = None) =>
          LET C == Get(Get(pass).compiler)
          IN BuiltIn(pass') = C.tasks[Len(C.tasks)].at]_vars

----------------------------------------------------------------------------
(* Properties of normalize_expr on typed trees *)

\* every Let of e has the ty of its body, and its binding the ty of the
\* bound value
RECURSIVE LetsTyped(_)
LetsTyped(e) ==
    CASE e.k \in {"Lit", "Var"} -> TRUE
      [] e.k = "If" -> LetsTyped(e.test) /\ LetsTyped(e.then) /\ LetsTyped(e.els)
      [] e.k = "Let" ->
            /\ e.ty = e.body.ty
            /\ e.binding.ty = e.binding.val.ty
            /\ LetsTyped(e.binding.val) /\ LetsTyped(e.body)
      [] e.k = "Letrec" -> TRUE
      [] e.k = "Lambda" -> LetsTyped(e.body)
      [] e.k = "App" -> LetsTyped(e.func) /\ LetsTyped(e.arg)

\* normalize_expr has returned, on a tree of the type checker
NormalizedTyped == Normalized /\ IsSome(typed) /\ Get(pass).input = Get(typed)

\* C26: normalize_expr preserves typing: the root ty of the output is the
\* root ty of the input, and every Let of the output, the Lets that
\* normalize_name introduces included, has the ty of its body and a binding
\* with the ty of the bound value.
C26_TypingPreserved ==
    NormalizedTyped =>
        /\ Get(Get(pass).once).ty = Get(pass).input.ty
        /\ LetsTyped(Get(Get(pass).once))

----------------------------------------------------------------------------
(* Properties of normalize: the binders *)

\* no binder: the variable is free
NoBinder == TVar(0 - 1)

\* For every Var occurrence of e that normalize_name did not introduce, the
\* pair of its ty and the ty of the binding or parameter that binds it
\* (NoBinder for a free one).  On a tree of from_ast the ty of a node and of
\* a binder is a type variable of its own, and normalize keeps them.
RECURSIVE Resolution(_, _)
Resolution(e, scope) ==
    CASE e.k = "Lit" -> {}
      [] e.k = "Var" ->
            IF IsGensym(e.name) THEN {}
            ELSE {<<e.ty, IF e.name \in DOMAIN scope THEN scope[e.name] ELSE NoBinder>>}
      [] e.k = "If" ->
            Resolution(e.test, scope) \cup Resolution(e.then, scope)
            \cup Resolution(e.els, scope)
      [] e.k = "Let" ->
            Resolution(e.binding.val, scope)
            \cup Resolution(e.body, (e.binding.name :> e.binding.ty) @@ scope)
      [] e.k = "Letrec" -> {}
      [] e.k = "Lambda" -> Resolution(e.body, (e.param.name :> e.param.ty) @@ scope)
      [] e.k = "App" -> Resolution(e.func, scope) \cup Resolution(e.arg, scope)

\* the free variables of e other than the names normalize_name introduced
FreeSourceNames(e) == {n \in FreeNames(e) : ~IsGensym(n)}

\* C27: normalize_expr never changes which binder a variable occurrence
\* refers to, also on an input that has not been alpha-renamed: every Var
\* occurrence of the input is bound in the output by the binder that binds it
\* in the input, or is free in both, so a Let floated out of an operand of an
\* App captures no variable of the other operand; the free variables of the
\* output are those of the input.
C27_BindersKept ==
    (Normalized /\ phase = "anf") =>
        /\ Resolution(Get(Get(pass).once), <<>>) = Resolution(Get(pass).input, <<>>)
        /\ FreeSourceNames(Get(Get(pass).once)) = FreeNames(Get(pass).input)

----------------------------------------------------------------------------
(* Properties of GENSYM under concurrent calls *)

\* C28: when two calls of normalize_expr run at the same time in different
\* threads, each call binds pairwise distinct names and returns the tree it
\* returns when it runs alone; a reset by one call does not make the other
\* call draw a name again.
C28_ConcurrentCalls ==
    (IsSome(pass) /\ Get(pass).kind = "gensym") =>
        \A t \in Threads :
            LET c == Get(pass).calls[t]
            IN /\ \A i, j \in 1 .. Len(c.drawn) : i # j => c.drawn[i] # c.drawn[j]
               /\ IsSome(c.out) => Get(c.out) = normalize_expr(c.input)

----------------------------------------------------------------------------
(* Properties of unify: termination *)

\* unify runs to its end once called: the thread that called it keeps running
InitUnify == Init /\ phase = "unify"

NextUnify ==
    \/ UnifyEmpty
    \/ Unify1Prim
    \/ Unify1Var
    \/ Unify1Fn
    \/ Unify1Mismatch
    \/ Unify1Return
    \/ UnifyTail
    \/ UnifyCompose
    \/ UnifyDone

SpecUnifyFair == InitUnify /\ [][NextUnify]_vars /\ WF_vars(NextUnify)

RECURSIVE TypeSize(_), SumSizes(_)
TypeSize(ty) ==
    IF IsFn(ty)
    THEN 1 + TypeSize(ty[3]) + SumSizes(ty[2])
    ELSE 1

SumSizes(tys) == IF tys = <<>> THEN 0 ELSE TypeSize(Head(tys)) + SumSizes(Tail(tys))

ConsVars(cs) == UNION {TypeVarsOf(cs[i][1]) \cup TypeVarsOf(cs[i][2]) : i \in 1 .. Len(cs)}

RECURSIVE ConsSize(_)
ConsSize(cs) ==
    IF cs = <<>> THEN 0
    ELSE TypeSize(Head(cs)[1]) + TypeSize(Head(cs)[2]) + ConsSize(Tail(cs))

\* (distinct type variables, total size) of cs2 is below that of cs1
LexLess(cs2, cs1) ==
    LET n1 == Cardinality(ConsVars(cs1))
        n2 == Cardinality(ConsVars(cs2))
    IN n2 < n1 \/ (n2 = n1 /\ ConsSize(cs2) < ConsSize(cs1))

\* a step that calls unify: the callee's frame is pushed on the caller's
RecursiveCall == stack # <<>> /\ Len(stack') = Len(stack) + 1

UnifyRunning == phase = "unify" /\ status = "running"
UnifyEnded ==
    \/ stack = <<>> /\ IsSome(ret)
    \/ status \in {"OccursCheck", "TypeMismatch"}

\* C29: every call of unify ends, with a substitution or with a failure, and
\* the constraint list of each recursive call is below the list of its caller
\* in the lexicographic order on (number of distinct type variables, total
\* size of the types).
C29_UnifyTerminates ==
    /\ [][RecursiveCall =>
            LexLess(stack'[Len(stack')].cons, stack[Len(stack)].cons)]_vars
    /\ UnifyRunning ~> UnifyEnded

\* unify has returned a substitution that binds a variable, after a call from
\* unify1 on two function types and a call on the substituted tail
C29_Witness ==
    /\ phase = "done" /\ status = "ok" /\ expr = None
    /\ IsSome(ret) /\ DOMAIN Get(ret) # {}
    /\ \E i \in 1 .. Len(cons) : BothFn(cons[i])

----------------------------------------------------------------------------
(* Properties of compile_var *)

\* every load of function f reads through a pointer made in f
LoadsLocal(M, f) ==
    \A b \in 1 .. Len(M.fns[f].blocks) :
        \A i \in 1 .. Len(M.fns[f].blocks[b].instrs) :
            LET instr == M.fns[f].blocks[b].instrs[i]
            IN instr.op = "load" => ValueLocal(M, f, instr.args[1])

\* C30: for every program that type-checks against the default environment,
\* every name compile_var looks up, the built-in primitives included, has a
\* stack slot in ctx.env, so that the lookup never unwraps None, and the slot
\* it loads from was allocated in the function being emitted.
C30_SlotsRegistered ==
    (CompileEnded /\ status = "ok") =>
        /\ Get(Get(pass).module).err # Some("unwrap on None")
        /\ \A f \in 1 .. Len(Get(Get(pass).module).fns) :
              LoadsLocal(Get(Get(pass).module), f)

====
